---- MODULE Spec2Model ----
(***************************************************************************)
(* Shared-memory cooperation layer of the smart pet camera.                *)
(*                                                                         *)
(* Part A  frame ring buffer: mock_camera_daemon.main (writer) and         *)
(*         RealSharedMemory.get_latest_frame (reader) over one mmap'ed     *)
(*         CSharedFrameBuffer segment, modelled word by word (1 word = 4   *)
(*         bytes) so that the offsets each side computes are visible.      *)
(*                                                                         *)
(* Part B  detection result channel: RealSharedMemory.open_detection_write,*)
(*         write_detection_result and the readers built on                 *)
(*         _read_detection_struct, over one CLatestDetectionResult segment.*)
(*                                                                         *)
(* Part C  zero-copy handoff: ZeroCopySharedMemory.get_frame/mark_consumed *)
(*         driven by YoloDetectorDaemon.run, one channel per camera.  The  *)
(*         producer of the descriptors is the camera daemon, which is not  *)
(*         part of the Python sources; it is modelled from its documented  *)
(*         contract (wait for consumed, then publish).                     *)
(*                                                                         *)
(* Part D  CameraSwitchController: the capture thread, the probe thread and*)
(*         a caller of force_camera/resume_auto sharing _switch_lock, a    *)
(*         threading.Lock (not reentrant).                                 *)
(*                                                                         *)
(* Sizes that the source fixes at values too large to enumerate            *)
(* (RING_BUFFER_SIZE = 30 slots, MAX_FRAME_SIZE = 3110400 bytes) are       *)
(* scaled down; every offset formula keeps the shape it has in the code.   *)
(***************************************************************************)
EXTENDS Integers, Sequences, FiniteSets, TLC

(* ------------------------------ bounds -------------------------------- *)
\* number of slots in the ring (30 in the source, scaled)
RING_BUFFER_SIZE == 3
\* capacity of CFrame.data in words (MAX_FRAME_SIZE / 4 in the source, scaled)
MaxDataWords == 5
\* frames the camera daemon writes before the model stops it
MaxFrames == 5
\* words one step of a memcpy (mmap.write / mmap.read) moves
ChunkWords == 10
\* number of values one word can hold (2^32 in the source; scaled so that a
\* two-word field stays inside the integers the model checker can represent)
WordBase == 32768

\* capacity of CLatestDetectionResult.detections (10 in the source, scaled)
MAX_DETECTIONS == 2
\* detection writes the model follows
MaxDetWrites == 2
\* detector process starts (each makes a new RealSharedMemory object)
MaxWriterStarts == 2
\* reader polls the model follows
MaxPolls == 2

\* descriptors the camera daemon publishes per zero-copy channel
MaxZcFrames == 2
\* brightness samples kept per camera (brightness_history = 60, scaled)
BRIGHTNESS_HISTORY == 2
\* seconds the condition must hold before a switch (10.0 in the source, scaled)
HOLD_SECONDS == 1
\* frames suppressed after a switch (warmup_frames = 3, scaled)
WARMUP_FRAMES == 1
\* the clock stops at this reading
MaxTime == 2
\* calls of force_camera / resume_auto
MaxApiCalls == 2
\* frames the camera thread of mock/main.py writes
MaxMockFrames == 2
\* HbMemBuffer / HbMemGraphicBuffer objects the model creates
MaxHbBuffers == 2
\* release() calls callers make (release, __exit__, __del__)
MaxReleaseCalls == 2

(* ------------------------- program constants -------------------------- *)
\* sizeof(new_frame_sem) = 32 bytes
SEM_WORDS == 8
\* argparse defaults of mock_camera_daemon
ARG_WIDTH == 640
ARG_HEIGHT == 480
ARG_FORMAT == 1
\* initial value of RealSharedMemory.last_read_frame_number
NO_FRAME_READ == -1
\* NV12 has 2 planes (Y, UV)
ZEROCOPY_MAX_PLANES == 2

Min(a, b) == IF a < b THEN a ELSE b

(* --------------------------- CFrame layout ---------------------------- *)
\* word offsets of the CFrame fields (byte offset / 4)
OFF_frame_number == 0
OFF_tv_sec == 2
OFF_tv_nsec == 4
OFF_camera_id == 6
OFF_width == 7
OFF_height == 8
OFF_format == 9
OFF_data_size == 10
OFF_brightness_avg == 12
OFF_brightness_lux == 13
OFF_brightness_zone == 14
OFF_data == 15

\* sizeof(CFrame) in words: 15 header words + data, padded to 8-byte alignment
CFrameWords == LET n == OFF_data + MaxDataWords IN n + (n % 2)

\* sizeof(CSharedFrameBuffer) in words
ShmWords == 2 + SEM_WORDS + CFrameWords * RING_BUFFER_SIZE

\* number of payload words the daemon generates per frame (len(data))
DataLen == MaxDataWords - 1

\* payload word j (0-based) of frame n: a token that identifies frame and place
PayloadWord(n, j) == 1000 * n + j + 1

\* bytes(c_frame) as the daemon builds it for frame number n at time t
CFrameBytes(n, t) ==
  [w \in 1..CFrameWords |->
     LET o == w - 1 IN
     CASE o = OFF_frame_number -> n % WordBase
       [] o = OFF_frame_number + 1 -> n \div WordBase
       [] o = OFF_tv_sec -> t % WordBase
       [] o = OFF_width -> ARG_WIDTH
       [] o = OFF_height -> ARG_HEIGHT
       [] o = OFF_format -> ARG_FORMAT
       [] o = OFF_data_size -> DataLen
       [] o >= OFF_data /\ o < OFF_data + DataLen -> PayloadWord(n, o - OFF_data)
       [] OTHER -> 0]

\* a 64-bit little-endian field read from two consecutive words
U64At(buf, off) == buf[off + 1] + buf[off + 2] * WordBase

\* the Frame the reader builds from a copied CFrame (from_buffer_copy + Frame(...))
FrameOfCFrame(buf) ==
  LET size == U64At(buf, OFF_data_size)
      data == [j \in 1..MaxDataWords |-> buf[OFF_data + j]]
  IN [frame_number |-> U64At(buf, OFF_frame_number),
      tv_sec |-> U64At(buf, OFF_tv_sec),
      camera_id |-> buf[OFF_camera_id + 1],
      width |-> buf[OFF_width + 1],
      height |-> buf[OFF_height + 1],
      format |-> buf[OFF_format + 1],
      data |-> SubSeq(data, 1, Min(size, MaxDataWords))]

\* the frame the daemon put into bytes(c_frame), as a reader should see it
FrameWritten(n, t) == FrameOfCFrame(CFrameBytes(n, t))

\* mock_camera_daemon: frame_offset = sizeof(c_uint32) * 2 + sizeof(CFrame) * idx
WriterFrameOffset(idx) == 2 + CFrameWords * idx

\* get_latest_frame: frame_offset = sizeof(c_uint32) * 2 + 32 + sizeof(CFrame) * latest_idx
ReaderFrameOffset(idx) == 2 + SEM_WORDS + CFrameWords * idx

None == [none |-> TRUE]

\* no call the daemon stood still for has accepted a frame
NoProgress == <<>>

VARIABLES
  frame_shm,               \* the mapped segment, word -> value
  cam_pc,                  \* daemon position: "slot" | "index" | "done"
  cam_frame_number,        \* daemon local frame_number
  cam_write_index,         \* daemon local write_index
  cam_chunk,               \* words of the current slot already copied
  rd_pc,                   \* reader position: "idle" | "read"
  rd_write_index,          \* write_index the current call loaded
  rd_chunk,                \* words of the slot already copied
  rd_buf,                  \* frame_data being filled by mmap.read
  last_read_frame_number,  \* RealSharedMemory.last_read_frame_number
  total_frames_read,       \* RealSharedMemory.total_frames_read
  rd_result,               \* return value of the last finished call
  accepted,                \* history: frame_number of every non-None return
  rd_calls,                \* history: number of finished calls
  rd_stable,               \* history: the daemon stood still during the current/last call
  lockstep,                \* history: so far exactly one call ran after each write
  accept_progress          \* history: how far the daemon had written when a
                           \* call it stood still for last accepted a frame

ringVars == <<frame_shm, cam_pc, cam_frame_number, cam_write_index, cam_chunk,
              rd_pc, rd_write_index, rd_chunk, rd_buf, last_read_frame_number,
              total_frames_read, rd_result, accepted, rd_calls, rd_stable, lockstep,
              accept_progress>>

VARIABLES
  det_exists,        \* /dev/shm<detection_shm_name> exists
  det_slot,          \* the CLatestDetectionResult in the segment
  wr_open,           \* writer object: detection_write_mode and detection_mmap set
  wr_last_version,   \* writer object: last_detection_version
  wr_starts,         \* history: writer objects created so far
  mon_open,          \* reader object: detection_mmap set
  mon_last_version,  \* reader object: last_detection_version
  mon_result,        \* return value of the reader's last call
  det_written,       \* history: one record per write_detection_result call
  mon_polls,         \* history: one record per get_latest_detections call
  det_sized,         \* the segment has the size of one CLatestDetectionResult
  wr_created,        \* writer object: inside open_detection_write, file just created
  mon_op,            \* history: the reader's last call
  mon_raised,        \* history: a call of the reader raised an exception
  mon_other_calls    \* history: read_detection / get_detection_version calls

detVars == <<det_exists, det_slot, wr_open, wr_last_version, wr_starts, mon_open,
             mon_last_version, mon_result, det_written, mon_polls, det_sized,
             wr_created, mon_op, mon_raised, mon_other_calls>>

VARIABLES
  zc,                 \* per camera: the CZeroCopyFrameBuffer segment
  zc_last_version,    \* per camera: ZeroCopySharedMemory.last_version
  d_pc,               \* daemon position in setup()/run()
  d_running,          \* YoloDetectorDaemon.running
  d_active,           \* run(): active_zc, the channel of this iteration
  d_frame,            \* run(): zc_frame
  d_buffer,           \* run(): hb_mem_buffer: "none" | "imported" | "released"
  d_scale_set,        \* scale_x / scale_y are cached
  d_frames_processed, \* stats["frames_processed"]
  d_roi,              \* ROI cycling: roi_enabled and more than one region
  d_roi_index,        \* roi_index
  d_cache,            \* detection_cache
  d_cache_frame_number, \* cache_frame_number
  d_detections,       \* run(): detections of this iteration
  d_pending,          \* history: descriptors taken and not yet acknowledged
  zc_clobbered        \* history: a publish replaced an unconsumed descriptor

zcVars == <<zc, zc_last_version, d_pc, d_running, d_active, d_frame, d_buffer,
            d_scale_set, d_frames_processed, d_roi, d_roi_index, d_cache,
            d_cache_frame_number, d_detections, d_pending, zc_clobbered>>

\* Part D: the switch controller
VARIABLES
  sw_active,            \* _active_camera_id
  sw_manual_override,   \* _manual_override
  sw_switch_mode,       \* _switch_mode
  sw_switch_reason,     \* _switch_reason
  sw_warmup_remaining,  \* _warmup_remaining
  sw_history,           \* _brightness_history: camera -> samples
  sw_below_since,       \* _below_threshold_since
  sw_above_since,       \* _above_threshold_since
  sw_lock,              \* holder of _switch_lock, or "free"
  sw_pc,                \* thread -> position
  sw_local,             \* thread -> locals (camera_id, now, target, reset_timers)
  sw_now,               \* the last reading of time.time()
  sw_last_frame,        \* the newest frame in the ring: the camera it comes
                        \* from and (history) the loop that captured it
  ctl_active_camera,    \* CameraControlChannel.active_camera
  sw_switches,          \* history: number of switches performed
  sw_api_calls,         \* history: calls of force_camera / resume_auto
  sw_dip_since,         \* history: "now" of the first evaluation of the
                        \* current run of evaluations that found DAY active
                        \* and the average below the threshold
  sw_rise_since,        \* history: the same for NIGHT active and the
                        \* average above the threshold
  sw_dip_abandoned,     \* history: the latest evaluation reset a running
                        \* below-threshold timer, and no frame has been
                        \* captured since
  sw_warmup_loaded,     \* capture loop: the value "-= 1" has read and not
                        \* yet stored back, or none
  sw_owed,              \* history: how many more frames captured after the
                        \* last switch belong to its warm-up
  sw_frame_owed         \* history: the frame the capture loop holds is one
                        \* of them

swVars == <<sw_active, sw_manual_override, sw_switch_mode, sw_switch_reason,
            sw_warmup_remaining, sw_history, sw_below_since, sw_above_since,
            sw_lock, sw_pc, sw_local, sw_now, sw_last_frame,
            ctl_active_camera, sw_switches, sw_api_calls,
            sw_dip_since, sw_rise_since, sw_dip_abandoned, sw_warmup_loaded,
            sw_owed, sw_frame_owed>>

VARIABLES
  shm_created            \* the capture daemon has created the frame channel
                         \* and the zero-copy channels under /dev/shm

lifeVars == <<shm_created>>

VARIABLES
  sw_stop_event,         \* CameraSwitchController._stop_event is set
  sw_stop_pc             \* stop(): "idle" | "join" | "returned"

stopVars == <<sw_stop_event, sw_stop_pc>>

VARIABLES
  mk_frame_buffer,       \* MockSharedMemory._frame_buffer
  mk_frame_lock,         \* _frame_lock: "free" or the thread holding it
  mk_frame_counter,      \* _frame_counter
  mk_detection_result,   \* _detection_result
  mk_detection_version,  \* _detection_version
  mk_detection_lock,     \* _detection_lock: "free" or the thread holding it
  mk_pc,                 \* thread -> "idle" or the with block it is in
  mk_frame,              \* thread -> the frame its last read returned
  mk_read_detection,     \* reader -> the pair its last read_detection returned
  mk_last_frame_number,  \* detection_thread_func: last_frame_number
  mk_detection_count,    \* detection_thread_func: detection_count
  mk_detections          \* detection_thread_func: detections

mockVars == <<mk_frame_buffer, mk_frame_lock, mk_frame_counter,
              mk_detection_result, mk_detection_version, mk_detection_lock,
              mk_pc, mk_frame, mk_read_detection, mk_last_frame_number,
              mk_detection_count, mk_detections>>

VARIABLES
  frame_mmap_pos,        \* file position of RealSharedMemory.frame_mmap
  mon_pc,                \* monitor thread -> position
  frames_processed,      \* WebMonitor.stats["frames_processed"]
  api_stats              \* what the last shm.get_stats() of api_status gave

posVars == <<frame_mmap_pos, mon_pc, frames_processed, api_stats>>

VARIABLES
  eq_result              \* the last read made on both implementations:
                         \* the call, what RealSharedMemory returned and
                         \* what MockSharedMemory returned

eqVars == <<eq_result>>

VARIABLES
  hb_bufs,               \* the buffer objects created so far, in order
  hb_free_calls,         \* history: per fd the library handed out, the
                         \* number of hb_mem_free_buf(fd) calls
  hb_pc,                 \* position inside import_nv12_planes /
                         \* import_nv12_graph_buf, or "idle"
  hb_call,               \* locals of the running import call
  hb_releases,           \* history: release() calls made by callers
  hb_released            \* history: the object of the last release() call

hbVars == <<hb_bufs, hb_free_calls, hb_pc, hb_call, hb_releases, hb_released>>

VARIABLES
  sl_slot,               \* the CLatestDetectionResult in the detection segment
  sl_last_version,       \* the reader's last_detection_version
  sl_pc,                 \* "idle", or "loop" inside the conversion loop
  sl_op,                 \* the reader call that runs or ran last
  sl_c_det,              \* the call's copy of the slot (from_buffer_copy)
  sl_i,                  \* the loop variable i
  sl_detections,         \* the list the loop has built
  sl_indexed,            \* history: the indices i of c_det.detections[i]
  sl_result,             \* what the last call returned
  sl_raised,             \* the last call raised IndexError
  sl_calls               \* history: reader calls made

slVars == <<sl_slot, sl_last_version, sl_pc, sl_op, sl_c_det, sl_i,
            sl_detections, sl_indexed, sl_result, sl_raised, sl_calls>>

vars == <<ringVars, detVars, zcVars, swVars, stopVars, mockVars, lifeVars,
          posVars, eqVars, hbVars, slVars>>

\* what the actions of one part leave alone
NotRing == <<detVars, zcVars, swVars, stopVars, mockVars, lifeVars,
             posVars, eqVars, hbVars, slVars>>
NotDet == <<ringVars, zcVars, swVars, stopVars, mockVars, lifeVars,
            posVars, eqVars, hbVars, slVars>>
NotZc == <<ringVars, swVars, stopVars, mockVars, lifeVars,
           posVars, eqVars, hbVars, slVars>>
NotSw == <<ringVars, detVars, zcVars, stopVars, mockVars, lifeVars,
           posVars, eqVars, hbVars, slVars>>
NotMock == <<ringVars, detVars, zcVars, swVars, stopVars, lifeVars,
             posVars, eqVars, hbVars, slVars>>
NotStop == <<ringVars, detVars, zcVars, mockVars, lifeVars,
             posVars, eqVars, hbVars, slVars>>
NotLife == <<ringVars, detVars, zcVars, swVars, stopVars, mockVars,
             posVars, eqVars, hbVars, slVars>>

NotPos == <<detVars, zcVars, swVars, stopVars, mockVars, lifeVars, eqVars,
            hbVars, slVars>>
NotEq == <<zcVars, swVars, stopVars, lifeVars, posVars, hbVars, slVars>>
NotHb == <<ringVars, detVars, zcVars, swVars, stopVars, mockVars, lifeVars,
           posVars, eqVars, slVars>>
NotSl == <<ringVars, detVars, zcVars, swVars, stopVars, mockVars, lifeVars,
           posVars, eqVars, hbVars>>

RingInit ==
  /\ frame_shm = [a \in 0..ShmWords - 1 |-> 0]
  /\ cam_pc = "slot"
  /\ cam_frame_number = 1
  /\ cam_write_index = 0
  /\ cam_chunk = 0
  /\ rd_pc = "idle"
  /\ rd_write_index = 0
  /\ rd_chunk = 0
  /\ rd_buf = <<>>
  /\ last_read_frame_number = NO_FRAME_READ
  /\ total_frames_read = 0
  /\ rd_result = None
  /\ accepted = <<>>
  /\ rd_calls = 0
  /\ rd_stable = TRUE
  /\ lockstep = TRUE
  /\ accept_progress = NoProgress

\* how far the daemon has written: frames published, words of the next slot
CamProgress == <<cam_write_index, cam_chunk>>

\* the daemon is between two frames: nothing of the next slot is written yet
CamAtRest == cam_chunk = 0 /\ cam_pc \in {"slot", "done"}

(* CamWriteSlot with the index store moved in front of the slot copy *)
CamWriteSlot_IndexFirst ==
  /\ UNCHANGED NotRing
  /\ cam_pc = "slot"
  /\ LET idx == cam_write_index % RING_BUFFER_SIZE
         base == WriterFrameOffset(idx)
         bytes == CFrameBytes(cam_frame_number, cam_frame_number)
         n == Min(ChunkWords, CFrameWords - cam_chunk)
     IN /\ frame_shm' = [a \in 0..ShmWords - 1 |->
                           IF a = 0 THEN (cam_write_index + 1) % WordBase
                           ELSE IF a >= base + cam_chunk /\ a < base + cam_chunk + n
                           THEN bytes[a - base + 1] ELSE frame_shm[a]]
        /\ cam_chunk' = cam_chunk + n
        /\ cam_pc' = IF cam_chunk + n = CFrameWords THEN "index" ELSE "slot"
  /\ rd_stable' = (rd_stable /\ rd_pc = "idle")
  /\ lockstep' = (lockstep /\ rd_pc = "idle"
                    /\ (cam_chunk = 0 => rd_calls = cam_write_index))
  /\ UNCHANGED <<cam_frame_number, cam_write_index, rd_pc, rd_write_index, rd_chunk,
                 rd_buf, last_read_frame_number, total_frames_read, rd_result,
                 accepted, rd_calls, accept_progress>>

(* mock_camera_daemon.main, lines 104-109: one step of
   shm_mmap.seek(frame_offset); shm_mmap.write(bytes(c_frame)) *)
CamWriteSlot ==
  /\ UNCHANGED NotRing
  /\ cam_pc = "slot"
  /\ LET idx == cam_write_index % RING_BUFFER_SIZE
         base == WriterFrameOffset(idx)
         bytes == CFrameBytes(cam_frame_number, cam_frame_number)
         n == Min(ChunkWords, CFrameWords - cam_chunk)
     IN /\ frame_shm' = [a \in 0..ShmWords - 1 |->
                           IF a >= base + cam_chunk /\ a < base + cam_chunk + n
                           THEN bytes[a - base + 1] ELSE frame_shm[a]]
        /\ cam_chunk' = cam_chunk + n
        /\ cam_pc' = IF cam_chunk + n = CFrameWords THEN "index" ELSE "slot"
  /\ rd_stable' = (rd_stable /\ rd_pc = "idle")
  /\ lockstep' = (lockstep /\ rd_pc = "idle"
                    /\ (cam_chunk = 0 => rd_calls = cam_write_index))
  /\ UNCHANGED <<cam_frame_number, cam_write_index, rd_pc, rd_write_index, rd_chunk,
                 rd_buf, last_read_frame_number, total_frames_read, rd_result,
                 accepted, rd_calls, accept_progress>>

(* mock_camera_daemon.main, lines 111-116: write_index += 1; seek(0);
   write(struct.pack("I", write_index)); frame_number += 1 *)
CamPublishIndex ==
  /\ UNCHANGED NotRing
  /\ cam_pc = "index"
  /\ cam_write_index' = cam_write_index + 1
  /\ frame_shm' = [frame_shm EXCEPT ![0] = (cam_write_index + 1) % WordBase]
  /\ cam_frame_number' = cam_frame_number + 1
  /\ cam_chunk' = 0
  /\ cam_pc' = IF cam_frame_number + 1 > MaxFrames THEN "done" ELSE "slot"
  /\ rd_stable' = (rd_stable /\ rd_pc = "idle")
  /\ lockstep' = (lockstep /\ rd_pc = "idle")
  /\ UNCHANGED <<rd_pc, rd_write_index, rd_chunk, rd_buf, last_read_frame_number,
                 total_frames_read, rd_result, accepted, rd_calls,
                 accept_progress>>

(* mock_camera_daemon.main, lines 52-62, run again after the process was
   stopped (the finally block of lines 126-128 changes nothing in the
   segment): os.open(O_CREAT | O_RDWR) and ftruncate to the same size keep
   an existing segment as it is; frame_number = 1; write_index = 0 *)
CamRestart ==
  /\ UNCHANGED NotRing
  /\ cam_pc' = "slot"
  /\ cam_frame_number' = 1
  /\ cam_write_index' = 0
  /\ cam_chunk' = 0
  /\ UNCHANGED <<frame_shm, rd_pc, rd_write_index, rd_chunk, rd_buf,
                 last_read_frame_number, total_frames_read, rd_result,
                 accepted, rd_calls, rd_stable, lockstep, accept_progress>>

(* get_latest_frame, lines 479-485: load write_index; 0 means no frame yet *)
RdLoadIndex ==
  /\ UNCHANGED NotRing
  /\ rd_pc = "idle"
  /\ rd_calls < MaxFrames + 1
  /\ rd_write_index' = frame_shm[0]
  /\ rd_stable' = CamAtRest
  /\ lockstep' = (lockstep /\ CamAtRest /\ frame_shm[0] = rd_calls + 1)
  /\ IF frame_shm[0] = 0
     THEN /\ rd_result' = None
          /\ rd_calls' = rd_calls + 1
          /\ UNCHANGED <<rd_pc, rd_chunk, rd_buf>>
     ELSE /\ rd_pc' = "read"
          /\ rd_chunk' = 0
          /\ rd_buf' = <<>>
          /\ UNCHANGED <<rd_result, rd_calls>>
  /\ UNCHANGED <<frame_shm, cam_pc, cam_frame_number, cam_write_index, cam_chunk,
                 last_read_frame_number, total_frames_read, accepted,
                 accept_progress>>

\* get_latest_frame without the test of line 501
RdFinish_AlwaysAccepts(c_frame) ==
  LET f == FrameOfCFrame(c_frame) IN
  /\ last_read_frame_number' = f.frame_number
  /\ total_frames_read' = total_frames_read + 1
  /\ rd_result' = f
  /\ accepted' = Append(accepted, f.frame_number)
  /\ accept_progress' =
       IF rd_stable THEN CamProgress ELSE NoProgress

(* get_latest_frame, lines 500-528, on the completed copy c_frame *)
RdFinish(c_frame) ==
  LET f == FrameOfCFrame(c_frame) IN
  IF f.frame_number = last_read_frame_number
  THEN /\ rd_result' = None
       /\ UNCHANGED <<last_read_frame_number, total_frames_read, accepted,
                      accept_progress>>
  ELSE /\ last_read_frame_number' = f.frame_number
       /\ total_frames_read' = total_frames_read + 1
       /\ rd_result' = f
       /\ accepted' = Append(accepted, f.frame_number)
       /\ accept_progress' =
            IF rd_stable THEN CamProgress ELSE NoProgress

(* get_latest_frame, lines 487-498: one step of seek(frame_offset);
   read(sizeof(CFrame)); the last step goes on to lines 500-528 *)
RdReadSlot ==
  /\ UNCHANGED NotRing
  /\ rd_pc = "read"
  /\ LET latest_idx == (rd_write_index - 1) % RING_BUFFER_SIZE
         base == ReaderFrameOffset(latest_idx)
         n == Min(ChunkWords, CFrameWords - rd_chunk)
         got == rd_buf \o [j \in 1..n |-> frame_shm[base + rd_chunk + j - 1]]
     IN IF rd_chunk + n = CFrameWords
        THEN /\ RdFinish(got)
             /\ rd_pc' = "idle"
             /\ rd_chunk' = 0
             /\ rd_buf' = <<>>
             /\ rd_calls' = rd_calls + 1
        ELSE /\ rd_buf' = got
             /\ rd_chunk' = rd_chunk + n
             /\ UNCHANGED <<rd_pc, rd_calls, rd_result, last_read_frame_number,
                            total_frames_read, accepted, accept_progress>>
  /\ UNCHANGED <<frame_shm, cam_pc, cam_frame_number, cam_write_index, cam_chunk,
                 rd_write_index, rd_stable, lockstep>>

RingNext == CamWriteSlot \/ CamPublishIndex \/ RdLoadIndex \/ RdReadSlot

(* ----------------------- detection result channel --------------------- *)

\* the empty detections array of a fresh CLatestDetectionResult()
NoDetections == [i \in 1..MAX_DETECTIONS |-> ""]

\* a zero-filled CLatestDetectionResult (fresh ctypes object, or a segment
\* that ftruncate has just sized)
ZeroSlot == [frame_number |-> 0, num_detections |-> 0,
             detections |-> NoDetections, version |-> 0]

\* class names of the records a caller may pass, in order
DetectionNames == <<"cat", "dog", "person", "bird", "cup", "bowl">>

\* detection lists a caller may pass: up to one more than the slot holds
DetectionInputs ==
  {SubSeq(DetectionNames, 1, k) :
     k \in 0..Min(MAX_DETECTIONS + 1, Len(DetectionNames))}

\* frame numbers a caller may pass
DetFrameNumbers == {7, 8}

\* the structure with num_detections = len(detections)
DetectionStruct_NoClamp(frame_number, detections, version) ==
  [frame_number |-> frame_number,
   num_detections |-> Len(detections),
   detections |-> [i \in 1..MAX_DETECTIONS |->
                     IF i <= Len(detections) THEN detections[i] ELSE ""],
   version |-> version % WordBase]

(* write_detection_result, lines 733-755: the structure that is written *)
DetectionStruct(frame_number, detections, version) ==
  [frame_number |-> frame_number,
   num_detections |-> Min(Len(detections), MAX_DETECTIONS),
   detections |-> [i \in 1..MAX_DETECTIONS |->
                     IF i <= Len(detections) THEN detections[i] ELSE ""],
   version |-> version % WordBase]

(* _read_detection_struct, lines 687-694: (has_new_version, cursor after) *)
ReadDetectionStruct(slot, last) ==
  [c_det |-> slot,
   has_new_version |-> slot.version # last,
   last |-> IF slot.version # last THEN slot.version ELSE last]

DetInit ==
  /\ det_exists = FALSE
  /\ det_sized = FALSE
  /\ det_slot = ZeroSlot
  /\ wr_open = FALSE
  /\ wr_created = FALSE
  /\ wr_last_version = 0
  /\ wr_starts = 1
  /\ mon_open = FALSE
  /\ mon_last_version = 0
  /\ mon_result = None
  /\ mon_op = "none"
  /\ mon_raised = FALSE
  /\ mon_other_calls = 0
  /\ det_written = <<>>
  /\ mon_polls = <<>>

(* the detector process ends and a new one starts: RealSharedMemory.__init__,
   lines 383-397; the segment is left in /dev/shm *)
WriterRestart ==
  /\ UNCHANGED NotDet
  /\ wr_starts < MaxWriterStarts
  /\ ~wr_created
  /\ wr_starts' = wr_starts + 1
  /\ wr_open' = FALSE
  /\ wr_last_version' = 0
  /\ UNCHANGED <<det_exists, det_slot, mon_open, mon_last_version, mon_result,
                 det_written, mon_polls, det_sized, wr_created, mon_op,
                 mon_raised, mon_other_calls>>

\* open_detection_write with O_TRUNC and ftruncate on every call
open_detection_write_Truncates ==
  /\ det_exists' = TRUE
  /\ det_sized' = TRUE
  /\ det_slot' = ZeroSlot
  /\ wr_open' = TRUE
  /\ wr_created' = FALSE
  /\ UNCHANGED <<wr_starts, mon_open, mon_last_version, mon_result, mon_polls,
                 mon_op, mon_raised, mon_other_calls>>

(* open_detection_write, lines 435-456: open the segment, or create and
   size it when it is absent, and map it for writing; when the call has
   already created the file (wr_created) this is the rest of the call *)
open_detection_write ==
  LET created_here == ~det_exists \/ wr_created IN
  /\ (det_exists /\ ~created_here) => det_sized
  /\ det_exists' = TRUE
  /\ det_sized' = TRUE
  /\ det_slot' = IF created_here THEN ZeroSlot ELSE det_slot
  /\ wr_open' = TRUE
  /\ wr_created' = FALSE
  /\ UNCHANGED <<wr_starts, mon_open, mon_last_version, mon_result, mon_polls,
                 mon_op, mon_raised, mon_other_calls>>

(* open_detection_write, lines 445-449: os.open(O_CREAT) has created the
   file and os.ftruncate has not yet run *)
OpenDetectionWriteCreate ==
  /\ UNCHANGED NotDet
  /\ ~wr_open
  /\ ~wr_created
  /\ ~det_exists
  /\ det_exists' = TRUE
  /\ wr_created' = TRUE
  /\ UNCHANGED <<det_slot, wr_open, wr_last_version, wr_starts, mon_open,
                 mon_last_version, mon_result, det_written, mon_polls,
                 det_sized, mon_op, mon_raised, mon_other_calls>>

(* a call of open_detection_write by the process that owns the writer
   object, or the rest of one *)
OpenDetectionWrite ==
  /\ UNCHANGED NotDet
  /\ ~wr_open
  /\ open_detection_write
  /\ UNCHANGED <<wr_last_version, det_written>>

(* write_detection_result, lines 716-761 *)
write_detection_result(frame_number, detections) ==
  LET c_det == DetectionStruct(frame_number, detections, wr_last_version + 1) IN
  /\ wr_open
  /\ wr_last_version' = wr_last_version + 1
  /\ det_slot' = c_det
  /\ det_written' = Append(det_written,
                           [version |-> c_det.version, frame_number |-> frame_number,
                            given |-> Len(detections),
                            detections |-> detections])

(* a call of write_detection_result with any frame number and detection list *)
WriteDetectionResult ==
  /\ UNCHANGED NotDet
  /\ Len(det_written) < MaxDetWrites
  /\ \E fn \in DetFrameNumbers, dets \in DetectionInputs :
       write_detection_result(fn, dets)
  /\ UNCHANGED <<det_exists, wr_open, wr_starts, mon_open, mon_last_version,
                 mon_result, mon_polls, det_sized, wr_created, mon_op,
                 mon_raised, mon_other_calls>>

(* the writer object reads the channel it writes (read_detection or
   get_detection_version on the same object): _read_detection_struct *)
WriterReadsDetection ==
  /\ UNCHANGED NotDet
  /\ wr_open
  /\ wr_last_version' = ReadDetectionStruct(det_slot, wr_last_version).last
  /\ wr_last_version' # wr_last_version
  /\ UNCHANGED <<det_exists, det_slot, wr_open, wr_starts, mon_open,
                 mon_last_version, mon_result, det_written, mon_polls,
                 det_sized, wr_created, mon_op, mon_raised, mon_other_calls>>

(* the reader maps the segment at start-up: open(), lines 417-433 *)
MonitorOpen ==
  /\ UNCHANGED NotDet
  /\ ~mon_open
  /\ det_exists
  /\ det_sized
  /\ mon_open' = TRUE
  /\ UNCHANGED <<det_exists, det_slot, wr_open, wr_last_version, wr_starts,
                 mon_last_version, mon_result, det_written, mon_polls,
                 det_sized, wr_created, mon_op, mon_raised, mon_other_calls>>

(* _try_open_detection_readonly, lines 645-662: os.open raises
   FileNotFoundError (caught) when the file is absent; mmap.mmap raises
   ValueError (not caught) when the file is shorter than the mapping *)
TryOpenDetectionReadonly ==
  IF mon_open THEN "mapped"
  ELSE IF ~det_exists THEN "absent"
  ELSE IF ~det_sized THEN "raises"
  ELSE "mapped"

\* calls the reader has made on a mapped or lazily opened channel
MonitorCalls == Len(mon_polls) + mon_other_calls

\* the slot content a reader call returns
DetectionsOf(c_det) ==
  [version |-> c_det.version,
   detections |-> SubSeq(c_det.detections, 1, c_det.num_detections)]

(* get_latest_detections, lines 538-570; without a mapping the call returns
   None and is not counted as a poll *)
GetLatestDetections ==
  /\ UNCHANGED NotDet
  /\ MonitorCalls < MaxPolls
  /\ mon_op' = "get_latest_detections"
  /\ IF ~mon_open
     THEN /\ mon_result' = None
          /\ UNCHANGED <<mon_last_version, mon_polls>>
     ELSE LET r == ReadDetectionStruct(det_slot, mon_last_version) IN
          /\ mon_last_version' = r.last
          /\ mon_result' = IF r.has_new_version THEN DetectionsOf(r.c_det)
                           ELSE None
          /\ mon_polls' = Append(mon_polls, [after |-> Len(det_written),
                                             changed |-> r.has_new_version])
  /\ UNCHANGED <<det_exists, det_slot, wr_open, wr_last_version, wr_starts,
                 mon_open, det_written, det_sized, wr_created, mon_raised,
                 mon_other_calls>>

(* read_detection, lines 591-631: lazy open, then _read_detection_struct;
   (None, last_detection_version) without a mapping *)
ReadDetection ==
  /\ UNCHANGED NotDet
  /\ MonitorCalls < MaxPolls
  /\ mon_other_calls' = mon_other_calls + 1
  /\ mon_op' = "read_detection"
  /\ LET outcome == TryOpenDetectionReadonly
         r == ReadDetectionStruct(det_slot, mon_last_version)
     IN IF outcome = "raises"
        THEN /\ mon_raised' = TRUE
             /\ UNCHANGED <<mon_open, mon_last_version, mon_result>>
        ELSE IF outcome = "absent"
        THEN /\ mon_result' = None
             /\ UNCHANGED <<mon_open, mon_last_version, mon_raised>>
        ELSE /\ mon_open' = TRUE
             /\ mon_last_version' = r.last
             /\ mon_result' = DetectionsOf(r.c_det)
             /\ UNCHANGED mon_raised
  /\ UNCHANGED <<det_exists, det_slot, wr_open, wr_last_version, wr_starts,
                 det_written, mon_polls, det_sized, wr_created>>

(* get_detection_version, lines 576-589: lazy open, then
   _read_detection_struct(update_version_only=True), which does not look at
   its argument *)
GetDetectionVersion ==
  /\ UNCHANGED NotDet
  /\ MonitorCalls < MaxPolls
  /\ mon_other_calls' = mon_other_calls + 1
  /\ mon_op' = "get_detection_version"
  /\ LET outcome == TryOpenDetectionReadonly
         r == ReadDetectionStruct(det_slot, mon_last_version)
     IN IF outcome = "raises"
        THEN /\ mon_raised' = TRUE
             /\ UNCHANGED <<mon_open, mon_last_version, mon_result>>
        ELSE IF outcome = "absent"
        THEN /\ mon_result' = [version |-> mon_last_version]
             /\ UNCHANGED <<mon_open, mon_last_version, mon_raised>>
        ELSE /\ mon_open' = TRUE
             /\ mon_last_version' = r.last
             /\ mon_result' = [version |-> r.c_det.version]
             /\ UNCHANGED mon_raised
  /\ UNCHANGED <<det_exists, det_slot, wr_open, wr_last_version, wr_starts,
                 det_written, mon_polls, det_sized, wr_created>>

DetNext ==
  \/ WriterRestart
  \/ OpenDetectionWriteCreate
  \/ OpenDetectionWrite
  \/ WriteDetectionResult
  \/ WriterReadsDetection
  \/ MonitorOpen
  \/ GetLatestDetections
  \/ ReadDetection
  \/ GetDetectionVersion

\* the writer process alone
DetWriterNext ==
  \/ WriterRestart
  \/ OpenDetectionWriteCreate
  \/ OpenDetectionWrite
  \/ WriteDetectionResult
  \/ WriterReadsDetection

(* ------------------------- zero-copy handoff -------------------------- *)

\* the two per-camera channels: 0 = DAY, 1 = NIGHT
Cameras == {0, 1}

\* plane_cnt values a descriptor may carry: the NV12 count, one too few, one
\* beyond ZEROCOPY_MAX_PLANES and a negative one
PlaneCounts == {-1, 1, 2, 3}

\* detection lists an inference may return
InferenceResults == {<<>>, <<"cat">>}

\* number of regions get_roi_regions returns in ROI mode
RoiRegions == 2

\* a CZeroCopyFrameBuffer before the first publish: zero-filled frame,
\* semaphores at 0
EmptyChannel == [version |-> 0, consumed |-> FALSE, plane_cnt |-> 0,
                 frame_number |-> 0, consumed_sem |-> 0]

(* the camera daemon's publish(descriptor): after the first descriptor it
   waits on consumed_sem and for the consumed flag, then writes the next
   descriptor with consumed = 0 and the next version *)
ZcCanPublish(ch) ==
  ch.version = 0 \/ (ch.consumed /\ ch.consumed_sem > 0)

ZcPublished(ch, plane_cnt) ==
  [version |-> ch.version + 1,
   consumed |-> FALSE,
   plane_cnt |-> plane_cnt,
   frame_number |-> ch.version + 1,
   consumed_sem |-> IF ch.version = 0 THEN ch.consumed_sem ELSE ch.consumed_sem - 1]

(* get_frame, lines 316-318: "if buf.frame.version == self.last_version:
   return None" *)
GetFrameIsNew_NoCheck(version, last_version) == TRUE

GetFrameIsNew(version, last_version) == version # last_version

(* get_frame, lines 322-326: plane_cnt outside 0..ZEROCOPY_MAX_PLANES *)
GetFramePlaneCntInvalid(plane_cnt) ==
  plane_cnt < 0 \/ plane_cnt > ZEROCOPY_MAX_PLANES

(* get_frame, lines 328-343: the ZeroCopyFrame that is returned *)
ZeroCopyFrameOf(cam, ch) ==
  [camera |-> cam, version |-> ch.version, plane_cnt |-> ch.plane_cnt,
   frame_number |-> ch.frame_number]

(* mark_consumed, lines 353-362: seek to the consumed field, write 1, flush *)
MarkConsumedFlag(ch) ==
  [ch EXCEPT !.consumed = TRUE]

(* mark_consumed, lines 364-373: sem_post(consumed_sem) *)
PostConsumedSem(ch) ==
  [ch EXCEPT !.consumed_sem = @ + 1]

ZcInit ==
  /\ zc = [c \in Cameras |-> EmptyChannel]
  /\ zc_last_version = [c \in Cameras |-> 0]
  /\ d_pc = "setup"
  /\ d_running = TRUE
  /\ d_active = 0
  /\ d_frame = None
  /\ d_buffer = "none"
  /\ d_scale_set = FALSE
  /\ d_frames_processed = 0
  /\ d_roi = FALSE
  /\ d_roi_index = 0
  /\ d_cache = [i \in 0..RoiRegions - 1 |-> <<>>]
  /\ d_cache_frame_number = 0
  /\ d_detections = <<>>
  /\ d_pending = {}
  /\ zc_clobbered = FALSE

\* no channel exists before the capture daemon has started
LifeInit == shm_created = FALSE

(* the capture daemon starts and creates its channels *)
CaptureDaemonStart ==
  /\ UNCHANGED NotLife
  /\ ~shm_created
  /\ shm_created' = TRUE

(* the camera daemon publishes the next descriptor of camera cam *)
ZcPublish ==
  /\ UNCHANGED NotZc
  /\ UNCHANGED detVars
  /\ shm_created
  /\ \E cam \in Cameras, pc \in PlaneCounts :
       /\ zc[cam].version < MaxZcFrames
       /\ ZcCanPublish(zc[cam])
       /\ zc' = [zc EXCEPT ![cam] = ZcPublished(zc[cam], pc)]
       /\ zc_clobbered' = (zc_clobbered \/ (zc[cam].version > 0 /\ ~zc[cam].consumed))
  /\ UNCHANGED <<zc_last_version, d_pc, d_running, d_active, d_frame, d_buffer,
                 d_scale_set, d_frames_processed, d_roi, d_roi_index, d_cache, d_cache_frame_number,
                 d_detections, d_pending>>

\* ZeroCopySharedMemory.open (lines 260-290) and RealSharedMemory.open
\* (lines 399-433) find the segment: os.open does not raise FileNotFoundError
ChannelFound == shm_created

(* setup, lines 122-161: open the channels and the detection segment; with
   neither zero-copy channel found, or without the frame channel, setup
   raises RuntimeError and main (lines 717-725) returns 1 *)
DaemonSetup ==
  /\ UNCHANGED NotZc
  /\ d_pc = "setup"
  /\ IF ChannelFound
     THEN /\ d_pc' = "loop"
          /\ open_detection_write
          /\ UNCHANGED <<wr_last_version, det_written>>
     ELSE /\ d_pc' = "failed"
          /\ UNCHANGED detVars
  /\ UNCHANGED <<zc, zc_last_version, d_running, d_active, d_frame, d_buffer,
                 d_scale_set, d_frames_processed, d_roi, d_roi_index, d_cache, d_cache_frame_number,
                 d_detections, d_pending, zc_clobbered>>

(* signal_handler, lines 379-382 *)
DaemonSignal ==
  /\ UNCHANGED NotZc
  /\ UNCHANGED detVars
  /\ d_running
  /\ d_pc # "stopped"
  /\ d_running' = FALSE
  /\ UNCHANGED <<zc, zc_last_version, d_pc, d_active, d_frame, d_buffer,
                 d_scale_set, d_frames_processed, d_roi, d_roi_index, d_cache, d_cache_frame_number,
                 d_detections, d_pending, zc_clobbered>>

(* run, line 399: "while self.running" fails, run returns 0 *)
DaemonExit ==
  /\ UNCHANGED NotZc
  /\ UNCHANGED detVars
  /\ d_pc = "loop"
  /\ ~d_running
  /\ d_pc' = "stopped"
  /\ UNCHANGED <<zc, zc_last_version, d_running, d_active, d_frame, d_buffer,
                 d_scale_set, d_frames_processed, d_roi, d_roi_index, d_cache, d_cache_frame_number,
                 d_detections, d_pending, zc_clobbered>>

(* run, lines 403-414: pick the active camera's channel and call get_frame
   (lines 301-343); cam is the camera the control channel names *)
DaemonGetFrame ==
  /\ UNCHANGED NotZc
  /\ UNCHANGED detVars
  /\ d_pc = "loop"
  /\ d_running
  /\ \E cam \in Cameras :
       LET ch == zc[cam] IN
       /\ d_active' = cam
       /\ d_buffer' = "none"
       /\ IF ~GetFrameIsNew(ch.version, zc_last_version[cam])
          THEN /\ d_frame' = None
               /\ UNCHANGED <<zc_last_version, d_pc, d_pending>>
          ELSE /\ zc_last_version' = [zc_last_version EXCEPT ![cam] = ch.version]
               /\ d_pending' = d_pending \cup {<<cam, ch.version>>}
               /\ IF GetFramePlaneCntInvalid(ch.plane_cnt)
                  THEN d_frame' = None /\ UNCHANGED d_pc
                  ELSE d_frame' = ZeroCopyFrameOf(cam, ch) /\ d_pc' = "got"
  /\ UNCHANGED <<zc, d_running, d_scale_set, d_frames_processed, d_roi,
                 d_roi_index, d_cache, d_cache_frame_number, d_detections, zc_clobbered>>

(* HbMemGraphicBuffer.release, hb_mem_bindings.py lines 631-651, called as
   hb_mem_buffer.release() *)
ReleaseBuffer_Skipped ==
  UNCHANGED d_buffer

ReleaseBuffer ==
  d_buffer' = "released"

\* run: active_zc.mark_consumed() up to the write of the consumed flag
BeginMarkConsumed(next_pc) ==
  /\ zc' = [zc EXCEPT ![d_active] = MarkConsumedFlag(zc[d_active])]
  /\ d_pc' = next_pc
  /\ UNCHANGED d_pending

\* run: the rest of active_zc.mark_consumed(), the post of consumed_sem
EndMarkConsumed ==
  /\ zc' = [zc EXCEPT ![d_active] = PostConsumedSem(zc[d_active])]
  /\ d_pending' = d_pending \ {<<d_active, zc[d_active].version>>}

(* run, lines 416-434: validate plane_cnt and import the buffer; a failure
   releases what was imported, acknowledges and continues *)
DaemonImport ==
  /\ UNCHANGED NotZc
  /\ UNCHANGED detVars
  /\ d_pc = "got"
  /\ \E import_ok \in BOOLEAN :
       IF d_frame.plane_cnt # 2 \/ ~import_ok
       THEN /\ BeginMarkConsumed("post")
            /\ UNCHANGED <<d_frame, d_buffer>>
       ELSE /\ d_buffer' = "imported"
            /\ d_pc' = "imported"
            /\ UNCHANGED <<zc, d_frame, d_pending>>
  /\ UNCHANGED <<zc_last_version, d_running, d_active, d_scale_set,
                 d_frames_processed, d_roi, d_roi_index, d_cache, d_cache_frame_number, d_detections,
                 zc_clobbered>>

(* run, lines 436-457: cache the scale factors from the main frame; without
   a main frame release, acknowledge and continue *)
DaemonScale ==
  /\ UNCHANGED NotZc
  /\ UNCHANGED detVars
  /\ d_pc = "imported"
  /\ IF d_scale_set
     THEN /\ d_pc' = "infer"
          /\ UNCHANGED <<zc, d_buffer, d_scale_set, d_pending>>
     ELSE \E main_frame_present \in BOOLEAN :
            IF main_frame_present
            THEN /\ d_scale_set' = TRUE
                 /\ d_pc' = "infer"
                 /\ UNCHANGED <<zc, d_buffer, d_pending>>
            ELSE /\ ReleaseBuffer
                 /\ BeginMarkConsumed("post")
                 /\ UNCHANGED d_scale_set
  /\ UNCHANGED <<zc_last_version, d_running, d_active, d_frame,
                 d_frames_processed, d_roi, d_roi_index, d_cache, d_cache_frame_number, d_detections,
                 zc_clobbered>>

(* run, lines 459-517: ROI setup on the first frame, then inference; an
   exception leaves the loop through "except Exception" (lines 647-652) and
   run returns 1 *)
DaemonInfer ==
  /\ UNCHANGED NotZc
  /\ UNCHANGED detVars
  /\ d_pc = "infer"
  /\ \E raised \in BOOLEAN, many_regions \in BOOLEAN, dets \in InferenceResults :
       IF raised
       THEN /\ d_pc' = "stopped"
            /\ UNCHANGED <<d_roi, d_detections>>
       ELSE /\ d_roi' = IF d_frames_processed = 0 THEN many_regions ELSE d_roi
            /\ d_detections' = dets
            /\ d_pc' = "release"
  /\ UNCHANGED <<zc, zc_last_version, d_running, d_active, d_frame, d_buffer,
                 d_scale_set, d_frames_processed, d_roi_index, d_cache, d_cache_frame_number,
                 d_pending, zc_clobbered>>

\* "for roi_dets in self.detection_cache: all_detections.extend(roi_dets)"
RECURSIVE AllDetections(_, _)
AllDetections(cache, n) ==
  IF n = 0 THEN <<>> ELSE AllDetections(cache, n - 1) \o cache[n - 1]

\* _merge_detections_with_nms on overlapping boxes of one class: the first
\* (highest ranked) detection survives
MergeDetections(all) ==
  IF all = <<>> THEN <<>> ELSE <<all[1]>>

(* run, lines 416-449, after "except" or a missing main frame: the rest of
   mark_consumed(), then "continue" *)
DaemonPostConsumed ==
  /\ UNCHANGED NotZc
  /\ UNCHANGED detVars
  /\ d_pc = "post"
  /\ EndMarkConsumed
  /\ d_pc' = "loop"
  /\ UNCHANGED <<zc_last_version, d_running, d_active, d_frame, d_buffer,
                 d_scale_set, d_frames_processed, d_roi, d_roi_index, d_cache,
                 d_cache_frame_number, d_detections, zc_clobbered>>

(* run, lines 519-521: hb_mem_buffer.release(), then mark_consumed() up to
   the write of the consumed flag *)
DaemonRelease ==
  /\ UNCHANGED NotZc
  /\ UNCHANGED detVars
  /\ d_pc = "release"
  /\ ReleaseBuffer
  /\ BeginMarkConsumed("finish")
  /\ UNCHANGED <<zc_last_version, d_running, d_active, d_frame, d_scale_set,
                 d_frames_processed, d_roi, d_roi_index, d_cache,
                 d_cache_frame_number, d_detections, zc_clobbered>>

(* run, lines 521-600: the rest of mark_consumed(), then publish the
   detections: in ROI mode the merged cache at the end of a cycle, otherwise
   this frame's detections; nothing is written when the list is empty *)
DaemonFinish ==
  /\ UNCHANGED NotZc
  /\ d_pc = "finish"
  /\ EndMarkConsumed
  /\ d_pc' = "loop"
  /\ d_frames_processed' = d_frames_processed + 1
  /\ LET next_index == (d_roi_index + 1) % RoiRegions
         cache == [d_cache EXCEPT ![d_roi_index] = d_detections]
         all == AllDetections(cache, RoiRegions)
         cycle_complete == ~d_roi \/ next_index = 0
         out == IF d_roi THEN MergeDetections(all) ELSE d_detections
         cache_frame_number == IF d_roi /\ d_roi_index = 0
                               THEN d_frame.frame_number
                               ELSE d_cache_frame_number
     IN /\ d_roi_index' = IF d_roi THEN next_index ELSE d_roi_index
        /\ d_cache_frame_number' = cache_frame_number
        /\ d_cache' = IF ~d_roi THEN d_cache
                      ELSE IF cycle_complete
                           THEN [i \in 0..RoiRegions - 1 |-> <<>>] ELSE cache
        /\ IF cycle_complete /\ out # <<>>
           THEN /\ write_detection_result(
                     IF d_roi THEN cache_frame_number ELSE d_frame.frame_number,
                     out)
                /\ UNCHANGED <<det_exists, wr_open, wr_starts, mon_open,
                               mon_last_version, mon_result, mon_polls,
                               det_sized, wr_created, mon_op, mon_raised,
                               mon_other_calls>>
           ELSE UNCHANGED detVars
  /\ UNCHANGED <<zc_last_version, d_running, d_active, d_frame, d_buffer,
                 d_scale_set, d_roi, d_detections, zc_clobbered>>

ZcNext ==
  \/ CaptureDaemonStart
  \/ ZcPublish
  \/ DaemonSetup
  \/ DaemonSignal
  \/ DaemonExit
  \/ DaemonGetFrame
  \/ DaemonImport
  \/ DaemonScale
  \/ DaemonInfer
  \/ DaemonPostConsumed
  \/ DaemonRelease
  \/ DaemonFinish

(* ---------------------- camera switch controller ---------------------- *)

DAY == 0
NIGHT == 1

\* Python's None in an Optional[int] / Optional[float] field
NoValue == -1

day_to_night_threshold == 40
night_to_day_threshold == 70

\* mean brightness values a frame of the DAY camera may have: dark and
\* bright; their average lies in the hysteresis band
BrightnessSamples == {30, 80}

\* mean brightness of the frames of the NIGHT camera (_evaluate_switch
\* computes night_avg and never reads it)
NightBrightnessSamples == {30}

\* the values _calculate_brightness may return for a frame of a camera: a
\* mean, or None when the image does not decode
BrightnessOf(cam) ==
  (IF cam = DAY THEN BrightnessSamples ELSE NightBrightnessSamples)
    \cup {NoValue}

Threads == {"capture", "probe", "api"}

RECURSIVE SumSeq(_)
SumSeq(q) == IF q = <<>> THEN 0 ELSE q[1] + SumSeq(Tail(q))

(* _record_brightness, lines 265-268: append to a deque(maxlen) *)
RecordBrightness(history, brightness) ==
  IF Len(history) < BRIGHTNESS_HISTORY
  THEN Append(history, brightness)
  ELSE Append(Tail(history), brightness)

(* _average_brightness, lines 270-274, compared with a threshold:
   sum / len < threshold, written without the division *)
AverageBelow(history, threshold) ==
  SumSeq(history) < threshold * Len(history)

AverageAbove_NoHysteresis(history, threshold) ==
  SumSeq(history) > day_to_night_threshold * Len(history)

AverageAbove(history, threshold) ==
  SumSeq(history) > threshold * Len(history)

(* "self._below_threshold_since or now": None and 0.0 are both falsy *)
OrNow(since, now) ==
  IF since = NoValue \/ since = 0 THEN now ELSE since

\* the ring before the first write_frame
NoFrame == [camera_id |-> NoValue, by |-> "none"]

NoLocals == [camera_id |-> NoValue, now |-> NoValue, target |-> NoValue,
             reset_timers |-> FALSE]

(* __init__, lines 54-101 *)
SwInit ==
  /\ sw_active = DAY
  /\ sw_manual_override = NoValue
  /\ sw_switch_mode = "auto"
  /\ sw_switch_reason = "initial"
  /\ sw_warmup_remaining = 0
  /\ sw_history = [c \in Cameras |-> <<>>]
  /\ sw_below_since = NoValue
  /\ sw_above_since = NoValue
  /\ sw_lock = "free"
  /\ sw_pc = [t \in Threads |-> IF t = "api" THEN "idle" ELSE "top"]
  /\ sw_local = [t \in Threads |-> NoLocals]
  /\ sw_now = 1
  /\ sw_last_frame = NoFrame
  /\ ctl_active_camera = DAY
  /\ sw_switches = 0
  /\ sw_api_calls = 0
  /\ sw_dip_since = NoValue
  /\ sw_rise_since = NoValue
  /\ sw_dip_abandoned = FALSE
  /\ sw_warmup_loaded = NoValue
  /\ sw_owed = 0
  /\ sw_frame_owed = FALSE

\* where a thread continues when _evaluate_switch returns: the capture loop
\* at its warm-up check and write_frame (lines 185-190), the probe loop at
\* its wait (line 210), which ends the iteration
AfterEvaluate_ProbeWrites(t) == "warmup"

AfterEvaluate(t) == IF t = "capture" THEN "warmup" ELSE "top"

\* where a thread continues when _switch_to returns
AfterSwitchTo(t) == IF t = "api" THEN "idle" ELSE AfterEvaluate(t)

(* _capture_loop lines 174-175 / _probe_loop lines 197-198: the loop goes on
   while the stop event is not set; _get_active_camera_id() (lines 258-260)
   takes and releases the lock *)
GetActiveCameraId ==
  /\ \E t \in {"capture", "probe"} :
       /\ sw_pc[t] = "top"
       /\ ~sw_stop_event
       /\ sw_lock = "free"
       /\ sw_local' = [sw_local EXCEPT ![t] =
            [NoLocals EXCEPT !.camera_id =
               IF t = "capture" THEN sw_active ELSE 1 - sw_active]]
       /\ sw_pc' = [sw_pc EXCEPT ![t] = "capture"]
  /\ UNCHANGED <<sw_active, sw_manual_override, sw_switch_mode,
                 sw_switch_reason, sw_warmup_remaining, sw_history,
                 sw_below_since, sw_above_since, sw_lock, sw_now,
                 sw_last_frame, ctl_active_camera,
                 sw_switches, sw_api_calls,
                 sw_dip_since, sw_rise_since, sw_dip_abandoned,
                 sw_warmup_loaded, sw_owed, sw_frame_owed>>
  /\ UNCHANGED NotSw

(* _capture_loop lines 179-183 / _probe_loop lines 202-206: capture a frame,
   compute its brightness (None when the image does not decode), record it,
   and call _evaluate_switch(now=time.time()); the probe thread evaluates
   only when it has a brightness. time.time() returns any time not before
   the clock's last reading. *)
CaptureAndRecord ==
  /\ \E t \in {"capture", "probe"} :
     \E b \in BrightnessOf(sw_local[t].camera_id) :
     \E time \in sw_now .. MaxTime :
       LET cam == sw_local[t].camera_id IN
       /\ sw_pc[t] = "capture"
       /\ sw_history' = IF b = NoValue THEN sw_history
                        ELSE [sw_history EXCEPT ![cam] = RecordBrightness(@, b)]
       /\ IF t = "probe" /\ b = NoValue
          THEN /\ sw_pc' = [sw_pc EXCEPT ![t] = "top"]
               /\ time = sw_now
               /\ UNCHANGED <<sw_local, sw_now>>
          ELSE /\ sw_pc' = [sw_pc EXCEPT ![t] = "evaluate"]
               /\ sw_local' = [sw_local EXCEPT ![t].now = time]
               /\ sw_now' = time
       /\ IF t = "capture"
          THEN /\ sw_frame_owed' = (sw_owed > 0)
               /\ sw_owed' = IF sw_owed > 0 THEN sw_owed - 1 ELSE 0
          ELSE UNCHANGED <<sw_owed, sw_frame_owed>>
       /\ sw_dip_abandoned' = FALSE
  /\ UNCHANGED <<sw_active, sw_manual_override, sw_switch_mode,
                 sw_switch_reason, sw_warmup_remaining, sw_below_since,
                 sw_above_since, sw_lock, sw_last_frame,
                 ctl_active_camera, sw_switches, sw_api_calls,
                 sw_dip_since, sw_rise_since, sw_warmup_loaded>>
  /\ UNCHANGED NotSw

\* the locals of a thread once its call of _evaluate_switch, _switch_to or
\* force_camera has returned: the arguments of the call are gone, the capture
\* loop still has the camera_id of its frame
LocalsAfterCall(t) ==
  IF t = "capture"
  THEN [NoLocals EXCEPT !.camera_id = sw_local[t].camera_id]
  ELSE NoLocals

\* _evaluate_switch returns: the with block releases the lock
EvaluateReturns(t) ==
  /\ sw_pc' = [sw_pc EXCEPT ![t] = AfterEvaluate(t)]
  /\ sw_lock' = "free"
  /\ sw_local' = [sw_local EXCEPT ![t] = LocalsAfterCall(t)]

\* _evaluate_switch calls _switch_to(target, reason=...) inside the with block
EvaluateCallsSwitchTo(t, target) ==
  /\ sw_pc' = [sw_pc EXCEPT ![t] = "switch_to"]
  /\ sw_lock' = t
  /\ sw_local' = [sw_local EXCEPT ![t].target = target,
                                  ![t].reset_timers = FALSE]

(* line 215: "if self._manual_override is not None: return" *)
ManualOverrideSet_Ignored == FALSE

ManualOverrideSet == sw_manual_override # NoValue

(* lines 227 and 235: "now - since >= hold_seconds" *)
HoldElapsed_Immediate(now, since) == TRUE

HoldElapsed(now, since) == now - since >= HOLD_SECONDS

\* the run of evaluations with the same finding, after one more evaluation
\* at "now": it goes on, or starts, when the finding holds, and ends otherwise
RunAfter(run, holds, now) ==
  IF ~holds THEN NoValue
  ELSE IF run = NoValue THEN now ELSE run

(* _evaluate_switch, lines 212-239 *)
EvaluateSwitch ==
  /\ \E t \in {"capture", "probe"} :
       LET now == sw_local[t].now
           day == sw_history[DAY]
           below == OrNow(sw_below_since, now)
           above == OrNow(sw_above_since, now)
       IN
       /\ sw_pc[t] = "evaluate"
       /\ sw_lock = "free"
       /\ sw_dip_abandoned' =
            ( /\ ~ManualOverrideSet
              /\ day # <<>>
              /\ sw_active = DAY
              /\ ~AverageBelow(day, day_to_night_threshold)
              /\ sw_below_since # NoValue )
       /\ IF ManualOverrideSet \/ day = <<>>
          THEN /\ EvaluateReturns(t)
               /\ UNCHANGED <<sw_below_since, sw_above_since, sw_dip_since,
                              sw_rise_since>>
          ELSE IF sw_active = DAY
          THEN /\ sw_dip_since' =
                    RunAfter(sw_dip_since,
                             AverageBelow(day, day_to_night_threshold), now)
               /\ UNCHANGED sw_rise_since
               /\ IF AverageBelow(day, day_to_night_threshold)
                  THEN /\ sw_below_since' = below
                       /\ UNCHANGED sw_above_since
                       /\ IF HoldElapsed(now, below)
                          THEN EvaluateCallsSwitchTo(t, NIGHT)
                          ELSE EvaluateReturns(t)
                  ELSE /\ sw_below_since' = NoValue
                       /\ UNCHANGED sw_above_since
                       /\ EvaluateReturns(t)
          ELSE /\ sw_rise_since' =
                    RunAfter(sw_rise_since,
                             AverageAbove(day, night_to_day_threshold), now)
               /\ UNCHANGED sw_dip_since
               /\ IF AverageAbove(day, night_to_day_threshold)
                  THEN /\ sw_above_since' = above
                       /\ UNCHANGED sw_below_since
                       /\ IF HoldElapsed(now, above)
                          THEN EvaluateCallsSwitchTo(t, DAY)
                          ELSE EvaluateReturns(t)
                  ELSE /\ sw_above_since' = NoValue
                       /\ UNCHANGED sw_below_since
                       /\ EvaluateReturns(t)
  /\ UNCHANGED <<sw_active, sw_manual_override, sw_switch_mode,
                 sw_switch_reason, sw_warmup_remaining, sw_history, sw_now,
                 sw_last_frame, ctl_active_camera,
                 sw_switches, sw_api_calls, sw_warmup_loaded, sw_owed,
                 sw_frame_owed>>
  /\ UNCHANGED NotSw

(* _switch_to, lines 241-256: "with self._switch_lock" needs the lock to be
   free, whoever holds it; on return the caller continues (and a caller that
   was inside _evaluate_switch leaves its with block) *)
SwitchTo ==
  /\ \E t \in Threads :
       LET target == sw_local[t].target IN
       /\ sw_pc[t] = "switch_to"
       /\ sw_lock = "free"
       /\ IF sw_active = target
          THEN UNCHANGED <<sw_active, sw_switch_reason, sw_warmup_remaining,
                           sw_below_since, sw_above_since, sw_switches,
                           sw_dip_since, sw_rise_since, sw_owed,
                           sw_frame_owed>>
          ELSE /\ sw_active' = target
               /\ sw_switch_reason' =
                    IF t = "api" THEN "manual"
                    ELSE IF target = NIGHT THEN "brightness_low"
                    ELSE "brightness_high"
               /\ sw_warmup_remaining' = WARMUP_FRAMES
               /\ sw_below_since' =
                    IF sw_local[t].reset_timers THEN NoValue ELSE sw_below_since
               /\ sw_above_since' =
                    IF sw_local[t].reset_timers THEN NoValue ELSE sw_above_since
               /\ sw_switches' = sw_switches + 1
               /\ sw_dip_since' = NoValue
               /\ sw_rise_since' = NoValue
               /\ sw_owed' = WARMUP_FRAMES
               /\ sw_frame_owed' = FALSE
       /\ sw_pc' = [sw_pc EXCEPT ![t] = AfterSwitchTo(t)]
       /\ sw_local' = [sw_local EXCEPT ![t] = LocalsAfterCall(t)]
       /\ sw_lock' = "free"
  /\ UNCHANGED <<sw_manual_override, sw_switch_mode, sw_history,
                 sw_now, sw_last_frame,
                 ctl_active_camera, sw_api_calls, sw_dip_abandoned,
                 sw_warmup_loaded>>
  /\ UNCHANGED NotSw

\* the variables the last steps of a capture-loop iteration leave alone
WarmupFrame == <<sw_active, sw_manual_override, sw_switch_mode,
                 sw_switch_reason, sw_history, sw_below_since, sw_above_since,
                 sw_lock, sw_local, sw_now, ctl_active_camera, sw_switches,
                 sw_api_calls, sw_dip_since, sw_rise_since, sw_dip_abandoned,
                 sw_owed>>

(* _capture_loop, lines 186-187: "if self._warmup_remaining > 0", read
   without the lock, and the read of "self._warmup_remaining -= 1". The two
   reads are one step: the only write another thread makes to the counter
   is _switch_to's "= warmup_frames", and with that write between the two
   reads the iteration ends as it does with the write before both. The loops
   reach this point where AfterEvaluate says. *)
WarmupCheck ==
  /\ \E t \in {"capture", "probe"} :
       /\ sw_pc[t] = "warmup"
       /\ IF sw_warmup_remaining > 0
          THEN /\ sw_warmup_loaded' = sw_warmup_remaining
               /\ sw_pc' = [sw_pc EXCEPT ![t] = "store"]
          ELSE /\ sw_pc' = [sw_pc EXCEPT ![t] = "write"]
               /\ UNCHANGED sw_warmup_loaded
  /\ UNCHANGED <<WarmupFrame, sw_warmup_remaining, sw_last_frame,
                 sw_frame_owed>>
  /\ UNCHANGED NotSw

(* _capture_loop, lines 187-188: "self._warmup_remaining -= 1" stores the
   value it read, less one; then "continue": the frame is dropped *)
WarmupStore ==
  /\ \E t \in {"capture", "probe"} :
       /\ sw_pc[t] = "store"
       /\ sw_warmup_remaining' = sw_warmup_loaded - 1
       /\ sw_warmup_loaded' = NoValue
       /\ sw_pc' = [sw_pc EXCEPT ![t] = "top"]
  /\ sw_frame_owed' = FALSE
  /\ UNCHANGED <<WarmupFrame, sw_last_frame>>
  /\ UNCHANGED NotSw

(* _capture_loop, line 190: self.shm.write_frame(frame) *)
WriteFrame ==
  /\ \E t \in {"capture", "probe"} :
       /\ sw_pc[t] = "write"
       /\ sw_last_frame' = [camera_id |-> sw_local[t].camera_id, by |-> t]
       /\ sw_pc' = [sw_pc EXCEPT ![t] = "top"]
  /\ sw_frame_owed' = FALSE
  /\ UNCHANGED <<WarmupFrame, sw_warmup_remaining, sw_warmup_loaded>>
  /\ UNCHANGED NotSw

(* force_camera, lines 129-135: set the override under the lock, release it,
   then call _switch_to(target_id, reason, reset_timers=True) *)
ForceCamera ==
  /\ \E camera \in Cameras :
       /\ sw_pc["api"] = "idle"
       /\ sw_api_calls < MaxApiCalls
       /\ sw_lock = "free"
       /\ sw_manual_override' = camera
       /\ sw_switch_mode' = "manual"
       /\ sw_local' = [sw_local EXCEPT !["api"].target = camera,
                                       !["api"].reset_timers = TRUE]
       /\ sw_pc' = [sw_pc EXCEPT !["api"] = "switch_to"]
       /\ sw_api_calls' = sw_api_calls + 1
  /\ sw_dip_since' = NoValue
  /\ sw_rise_since' = NoValue
  /\ UNCHANGED <<sw_active, sw_switch_reason, sw_warmup_remaining, sw_history,
                 sw_below_since, sw_above_since, sw_lock, sw_now,
                 sw_last_frame, ctl_active_camera,
                 sw_switches, sw_dip_abandoned, sw_warmup_loaded,
                 sw_owed, sw_frame_owed>>
  /\ UNCHANGED NotSw

(* resume_auto, lines 137-145 *)
ResumeAuto_KeepsTimers ==
  /\ sw_pc["api"] = "idle"
  /\ sw_api_calls < MaxApiCalls
  /\ sw_lock = "free"
  /\ sw_manual_override' = NoValue
  /\ sw_switch_mode' = "auto"
  /\ sw_switch_reason' = "auto-resume"
  /\ UNCHANGED <<sw_below_since, sw_above_since>>
  /\ sw_api_calls' = sw_api_calls + 1
  /\ sw_dip_since' = NoValue
  /\ sw_rise_since' = NoValue
  /\ UNCHANGED <<sw_active, sw_warmup_remaining, sw_history, sw_lock, sw_pc,
                 sw_local, sw_now, sw_last_frame,
                 ctl_active_camera, sw_switches, sw_dip_abandoned, sw_warmup_loaded,
                 sw_owed, sw_frame_owed>>
  /\ UNCHANGED NotSw

ResumeAuto ==
  /\ sw_pc["api"] = "idle"
  /\ sw_api_calls < MaxApiCalls
  /\ sw_lock = "free"
  /\ sw_manual_override' = NoValue
  /\ sw_switch_mode' = "auto"
  /\ sw_switch_reason' = "auto-resume"
  /\ sw_below_since' = NoValue
  /\ sw_above_since' = NoValue
  /\ sw_api_calls' = sw_api_calls + 1
  /\ sw_dip_since' = NoValue
  /\ sw_rise_since' = NoValue
  /\ UNCHANGED <<sw_active, sw_warmup_remaining, sw_history, sw_lock, sw_pc,
                 sw_local, sw_now, sw_last_frame,
                 ctl_active_camera, sw_switches, sw_dip_abandoned, sw_warmup_loaded,
                 sw_owed, sw_frame_owed>>
  /\ UNCHANGED NotSw

SwNext ==
  \/ GetActiveCameraId
  \/ CaptureAndRecord
  \/ EvaluateSwitch
  \/ SwitchTo
  \/ WarmupCheck
  \/ WarmupStore
  \/ WriteFrame
  \/ ForceCamera
  \/ ResumeAuto

(* ------------------------ controller shutdown ------------------------- *)

StopInit ==
  /\ sw_stop_event = FALSE
  /\ sw_stop_pc = "idle"

\* the variables of the controller a shutdown step leaves alone
StopFrame == <<sw_active, sw_manual_override, sw_switch_mode,
               sw_switch_reason, sw_warmup_remaining, sw_history,
               sw_below_since, sw_above_since, sw_lock, sw_local, sw_now,
               sw_last_frame, ctl_active_camera, sw_switches, sw_api_calls,
               sw_dip_since, sw_rise_since, sw_dip_abandoned,
               sw_warmup_loaded, sw_owed, sw_frame_owed>>

(* stop, line 119: self._stop_event.set() *)
Stop ==
  /\ UNCHANGED NotStop
  /\ sw_stop_pc = "idle"
  /\ sw_stop_event' = TRUE
  /\ sw_stop_pc' = "join"
  /\ UNCHANGED <<StopFrame, sw_pc>>

(* _capture_loop line 174 / _probe_loop line 197: "while not
   self._stop_event.is_set()" ends the loop and the thread *)
LoopExit ==
  /\ UNCHANGED NotStop
  /\ \E t \in {"capture", "probe"} :
       /\ sw_pc[t] = "top"
       /\ sw_stop_event
       /\ sw_pc' = [sw_pc EXCEPT ![t] = "exited"]
  /\ UNCHANGED <<StopFrame, stopVars>>

(* stop, lines 120-127: join(timeout=2.0) on both threads returns when the
   thread has ended or the timeout has passed; then the cameras are
   released and stop returns *)
StopReturns ==
  /\ UNCHANGED NotStop
  /\ sw_stop_pc = "join"
  /\ sw_stop_pc' = "returned"
  /\ UNCHANGED <<StopFrame, sw_pc, sw_stop_event>>

StopNext == SwNext \/ Stop \/ LoopExit \/ StopReturns

(* ------------------------- mock shared memory ------------------------- *)

\* the threads that share one MockSharedMemory: the camera thread and the
\* detection thread of mock/main.py and two readers (web monitor, recorder)
MockReaders == {"monitor", "viewer"}

MockThreads == {"camera", "detector"} \cup MockReaders

\* the threads that call read_latest_frame
MockFrameReaders == {"detector"} \cup MockReaders

\* MockDetector.detect returns no detection or some
MockDetectorResults == {<<>>, <<"cat">>}

\* MockSharedMemory.__init__ and the locals of detection_thread_func
MockInit ==
  /\ mk_frame_buffer = <<>>
  /\ mk_frame_lock = "free"
  /\ mk_frame_counter = 0
  /\ mk_detection_result = None
  /\ mk_detection_version = 0
  /\ mk_detection_lock = "free"
  /\ mk_pc = [t \in MockThreads |-> "idle"]
  /\ mk_frame = [t \in MockFrameReaders |-> None]
  /\ mk_read_detection = [t \in MockReaders |-> <<None, 0>>]
  /\ mk_last_frame_number = -1
  /\ mk_detection_count = 0
  /\ mk_detections = <<>>

\* deque(maxlen=buffer_size).append
DequeAppend(buffer, item) ==
  IF Len(buffer) < RING_BUFFER_SIZE THEN Append(buffer, item)
  ELSE Append(Tail(buffer), item)

(* "with self._frame_lock:" / "with self._detection_lock:": the block is
   entered when the lock is free *)
WithLock(t, lock, block) ==
  /\ lock = "free"
  /\ mk_pc' = [mk_pc EXCEPT ![t] = block]

(* camera_thread_func, lines 59-62: capture a frame and call write_frame,
   which takes _frame_lock (shared_memory.py line 66) *)
MockWriteFrameEnter ==
  /\ UNCHANGED NotMock
  /\ mk_pc["camera"] = "idle"
  /\ mk_frame_counter < MaxMockFrames
  /\ WithLock("camera", mk_frame_lock, "write_frame")
  /\ mk_frame_lock' = "camera"
  /\ UNCHANGED <<mk_frame_buffer, mk_frame_counter, mk_detection_result,
                 mk_detection_version, mk_detection_lock, mk_frame,
                 mk_read_detection, mk_last_frame_number, mk_detection_count,
                 mk_detections>>

(* write_frame, lines 67-71, and the end of its with block *)
MockWriteFrameExit ==
  /\ UNCHANGED NotMock
  /\ mk_pc["camera"] = "write_frame"
  /\ mk_frame_counter' = mk_frame_counter + 1
  /\ mk_frame_buffer' = DequeAppend(mk_frame_buffer,
                                    [frame_number |-> mk_frame_counter + 1])
  /\ mk_frame_lock' = "free"
  /\ mk_pc' = [mk_pc EXCEPT !["camera"] = "idle"]
  /\ UNCHANGED <<mk_detection_result, mk_detection_version, mk_detection_lock,
                 mk_frame, mk_read_detection, mk_last_frame_number,
                 mk_detection_count, mk_detections>>

(* read_latest_frame, line 80: the reader takes _frame_lock *)
MockReadLatestFrameEnter ==
  /\ UNCHANGED NotMock
  /\ \E t \in MockFrameReaders :
       /\ mk_pc[t] = "idle"
       /\ WithLock(t, mk_frame_lock, "read_latest_frame")
       /\ mk_frame_lock' = t
  /\ UNCHANGED <<mk_frame_buffer, mk_frame_counter, mk_detection_result,
                 mk_detection_version, mk_detection_lock, mk_frame,
                 mk_read_detection, mk_last_frame_number, mk_detection_count,
                 mk_detections>>

\* read_latest_frame with a return that leaves _frame_lock taken
ReadLatestFrameReturn_KeepsLock(t) ==
  /\ mk_pc[t] = "read_latest_frame"
  /\ mk_frame' = [mk_frame EXCEPT ![t] =
       IF mk_frame_buffer = <<>> THEN None
       ELSE mk_frame_buffer[Len(mk_frame_buffer)]]
  /\ UNCHANGED mk_frame_lock

(* read_latest_frame, lines 81-92: None when the buffer is empty, else a
   copy of the newest frame; the return leaves the with block *)
ReadLatestFrameReturn(t) ==
  /\ mk_pc[t] = "read_latest_frame"
  /\ mk_frame' = [mk_frame EXCEPT ![t] =
       IF mk_frame_buffer = <<>> THEN None
       ELSE mk_frame_buffer[Len(mk_frame_buffer)]]
  /\ mk_frame_lock' = "free"

(* detection_thread_func, lines 96-105: without a frame, or with the frame
   it processed last, the thread sleeps and reads again; a reader goes on *)
MockReadLatestFrameExit ==
  /\ UNCHANGED NotMock
  /\ \E t \in MockFrameReaders :
       /\ ReadLatestFrameReturn(t)
       /\ mk_pc' = [mk_pc EXCEPT ![t] =
            IF /\ t = "detector"
               /\ mk_frame'[t] # None
               /\ mk_frame'[t].frame_number # mk_last_frame_number
            THEN "detect" ELSE "idle"]
  /\ UNCHANGED <<mk_frame_buffer, mk_frame_counter, mk_detection_result,
                 mk_detection_version, mk_detection_lock, mk_read_detection,
                 mk_last_frame_number, mk_detection_count, mk_detections>>

(* detection_thread_func, lines 108-111 and 125: detect; the result is
   written when it has detections or nothing was detected before, else the
   frame is done without a write *)
MockDetect ==
  /\ UNCHANGED NotMock
  /\ mk_pc["detector"] = "detect"
  /\ \E detections \in MockDetectorResults :
       /\ mk_detections' = detections
       /\ IF detections # <<>> \/ mk_detection_count = 0
          THEN /\ mk_pc' = [mk_pc EXCEPT !["detector"] = "call_write_detection"]
               /\ UNCHANGED mk_last_frame_number
          ELSE /\ mk_pc' = [mk_pc EXCEPT !["detector"] = "idle"]
               /\ mk_last_frame_number' = mk_frame["detector"].frame_number
  /\ UNCHANGED <<mk_frame_buffer, mk_frame_lock, mk_frame_counter,
                 mk_detection_result, mk_detection_version, mk_detection_lock,
                 mk_frame, mk_read_detection, mk_detection_count>>

(* detection_thread_func, lines 111-117: write_detection takes
   _detection_lock (shared_memory.py line 146) *)
MockWriteDetectionEnter ==
  /\ UNCHANGED NotMock
  /\ mk_pc["detector"] = "call_write_detection"
  /\ WithLock("detector", mk_detection_lock, "write_detection")
  /\ mk_detection_lock' = "detector"
  /\ UNCHANGED <<mk_frame_buffer, mk_frame_lock, mk_frame_counter,
                 mk_detection_result, mk_detection_version, mk_frame,
                 mk_read_detection, mk_last_frame_number, mk_detection_count,
                 mk_detections>>

(* write_detection, lines 147-150, then detection_thread_func, lines
   119-125 *)
MockWriteDetectionExit ==
  /\ UNCHANGED NotMock
  /\ mk_pc["detector"] = "write_detection"
  /\ mk_detection_version' = mk_detection_version + 1
  /\ mk_detection_result' =
       [frame_number |-> mk_frame["detector"].frame_number,
        detections |-> mk_detections,
        version |-> mk_detection_version + 1]
  /\ mk_detection_lock' = "free"
  /\ mk_detection_count' =
       IF mk_detections # <<>> THEN mk_detection_count + 1
       ELSE mk_detection_count
  /\ mk_last_frame_number' = mk_frame["detector"].frame_number
  /\ mk_pc' = [mk_pc EXCEPT !["detector"] = "idle"]
  /\ UNCHANGED <<mk_frame_buffer, mk_frame_lock, mk_frame_counter, mk_frame,
                 mk_read_detection, mk_detections>>

(* read_detection, line 160: the reader takes _detection_lock *)
MockReadDetectionEnter ==
  /\ UNCHANGED NotMock
  /\ \E t \in MockReaders :
       /\ mk_pc[t] = "idle"
       /\ WithLock(t, mk_detection_lock, "read_detection")
       /\ mk_detection_lock' = t
  /\ UNCHANGED <<mk_frame_buffer, mk_frame_lock, mk_frame_counter,
                 mk_detection_result, mk_detection_version, mk_frame,
                 mk_read_detection, mk_last_frame_number, mk_detection_count,
                 mk_detections>>

(* read_detection, line 161, and the end of its with block *)
MockReadDetectionExit ==
  /\ UNCHANGED NotMock
  /\ \E t \in MockReaders :
       /\ mk_pc[t] = "read_detection"
       /\ mk_read_detection' = [mk_read_detection EXCEPT ![t] =
            <<mk_detection_result, mk_detection_version>>]
       /\ mk_detection_lock' = "free"
       /\ mk_pc' = [mk_pc EXCEPT ![t] = "idle"]
  /\ UNCHANGED <<mk_frame_buffer, mk_frame_lock, mk_frame_counter,
                 mk_detection_result, mk_detection_version, mk_frame,
                 mk_last_frame_number, mk_detection_count, mk_detections>>

MockNext ==
  \/ MockWriteFrameEnter
  \/ MockWriteFrameExit
  \/ MockReadLatestFrameEnter
  \/ MockReadLatestFrameExit
  \/ MockDetect
  \/ MockWriteDetectionEnter
  \/ MockWriteDetectionExit
  \/ MockReadDetectionEnter
  \/ MockReadDetectionExit

(* ------------------ one mapping used by two threads ------------------- *)
(* web_monitor: the overlay thread (WebMonitor._overlay_loop) and a request
   thread of the Flask app (api_status; main.py runs it threaded) use the
   same RealSharedMemory object. frame_mmap is one mmap object with one file
   position: seek sets it, read reads from it and moves it. Each seek and
   each read is one step of the interpreter; the other thread may run
   between any two of them. The segment is frame_shm, written by the camera
   daemon (CamWriteSlot, CamPublishIndex). *)

\* the request thread's get_stats() raised
Raised == [raised |-> TRUE]

PosInit ==
  /\ frame_mmap_pos = 0
  /\ mon_pc = [t \in {"overlay", "api"} |-> "idle"]
  /\ frames_processed = 0
  /\ api_stats = None

\* frame_mmap.read(n): the words from the position to the end, at most n
MmapRead(n) ==
  [j \in 1..Min(n, ShmWords - frame_mmap_pos) |->
     frame_shm[frame_mmap_pos + j - 1]]

\* the ring variables the two threads of the monitor never write
PosFrame == <<frame_shm, cam_pc, cam_frame_number, cam_write_index, cam_chunk,
              rd_pc, rd_chunk, rd_buf, rd_stable, lockstep>>

\* the reader fields get_latest_frame may set
RdFields == <<rd_write_index, last_read_frame_number, total_frames_read,
              rd_result, accepted, rd_calls, accept_progress>>

(* _overlay_loop line 137, get_latest_frame line 480: frame_mmap.seek(0) *)
OverlaySeekIndex ==
  /\ UNCHANGED NotPos
  /\ mon_pc["overlay"] = "idle"
  /\ rd_calls < MaxPolls
  /\ frame_mmap_pos' = 0
  /\ mon_pc' = [mon_pc EXCEPT !["overlay"] = "read_index"]
  /\ UNCHANGED <<PosFrame, RdFields, frames_processed, api_stats>>

(* get_latest_frame, lines 481-485: struct.unpack("I", frame_mmap.read(4));
   unpack raises when the read is short; write_index 0 returns None *)
OverlayReadIndex ==
  /\ UNCHANGED NotPos
  /\ mon_pc["overlay"] = "read_index"
  /\ LET got == MmapRead(1) IN
     /\ frame_mmap_pos' = frame_mmap_pos + Len(got)
     /\ IF got = <<>>
        THEN /\ mon_pc' = [mon_pc EXCEPT !["overlay"] = "raised"]
             /\ UNCHANGED RdFields
        ELSE /\ rd_write_index' = got[1]
             /\ IF got[1] = 0
                THEN /\ rd_result' = None
                     /\ rd_calls' = rd_calls + 1
                     /\ mon_pc' = [mon_pc EXCEPT !["overlay"] = "idle"]
                ELSE /\ mon_pc' = [mon_pc EXCEPT !["overlay"] = "seek_slot"]
                     /\ UNCHANGED <<rd_result, rd_calls>>
             /\ UNCHANGED <<last_read_frame_number, total_frames_read,
                            accepted, accept_progress>>
  /\ UNCHANGED <<PosFrame, frames_processed, api_stats>>

(* get_latest_frame, lines 488-496: frame_mmap.seek(frame_offset) *)
OverlaySeekSlot ==
  /\ UNCHANGED NotPos
  /\ mon_pc["overlay"] = "seek_slot"
  /\ frame_mmap_pos' =
       ReaderFrameOffset((rd_write_index - 1) % RING_BUFFER_SIZE)
  /\ mon_pc' = [mon_pc EXCEPT !["overlay"] = "read_slot"]
  /\ UNCHANGED <<PosFrame, RdFields, frames_processed, api_stats>>

(* get_latest_frame, lines 497-528: frame_mmap.read(sizeof(CFrame));
   CFrame.from_buffer_copy raises when the read is short, and the overlay
   thread ends; a returned frame goes on to lines 140-172 of the loop *)
OverlayReadSlot ==
  /\ UNCHANGED NotPos
  /\ mon_pc["overlay"] = "read_slot"
  /\ LET got == MmapRead(CFrameWords) IN
     /\ frame_mmap_pos' = frame_mmap_pos + Len(got)
     /\ IF Len(got) < CFrameWords
        THEN /\ mon_pc' = [mon_pc EXCEPT !["overlay"] = "raised"]
             /\ UNCHANGED <<last_read_frame_number, total_frames_read,
                            rd_result, accepted, rd_calls, accept_progress>>
        ELSE /\ RdFinish(got)
             /\ rd_calls' = rd_calls + 1
             /\ mon_pc' = [mon_pc EXCEPT !["overlay"] =
                  IF U64At(got, OFF_frame_number) = last_read_frame_number
                  THEN "idle" ELSE "process"]
  /\ UNCHANGED <<PosFrame, rd_write_index, frames_processed, api_stats>>

(* _overlay_loop, lines 140-172: the frame is drawn, encoded and queued, and
   self.stats["frames_processed"] += 1 *)
OverlayProcess ==
  /\ UNCHANGED NotPos
  /\ mon_pc["overlay"] = "process"
  /\ frames_processed' = frames_processed + 1
  /\ mon_pc' = [mon_pc EXCEPT !["overlay"] = "idle"]
  /\ UNCHANGED <<PosFrame, RdFields, frame_mmap_pos, api_stats>>

(* get_stats, lines 633-643, on the value get_write_index returned *)
get_stats(write_index) ==
  [frame_count |-> IF write_index > 0
                   THEN Min(write_index, RING_BUFFER_SIZE) ELSE 0,
   total_frames_written |-> write_index]

(* api_status line 930, get_stats line 635, get_write_index line 534:
   frame_mmap.seek(0) *)
ApiSeekIndex ==
  /\ UNCHANGED NotPos
  /\ mon_pc["api"] = "idle"
  /\ frame_mmap_pos' = 0
  /\ mon_pc' = [mon_pc EXCEPT !["api"] = "read_index"]
  /\ UNCHANGED <<PosFrame, RdFields, frames_processed, api_stats>>

(* get_write_index, lines 535-536: struct.unpack("I", frame_mmap.read(4)),
   which raises when the read is short; then get_stats lines 636-643 *)
ApiReadIndex ==
  /\ UNCHANGED NotPos
  /\ mon_pc["api"] = "read_index"
  /\ LET got == MmapRead(1) IN
     /\ frame_mmap_pos' = frame_mmap_pos + Len(got)
     /\ api_stats' = IF got = <<>> THEN Raised ELSE get_stats(got[1])
  /\ mon_pc' = [mon_pc EXCEPT !["api"] = "idle"]
  /\ UNCHANGED <<PosFrame, RdFields, frames_processed>>

PosNext ==
  \/ CamWriteSlot \/ CamPublishIndex
  \/ OverlaySeekIndex \/ OverlayReadIndex \/ OverlaySeekSlot
  \/ OverlayReadSlot \/ OverlayProcess
  \/ ApiSeekIndex \/ ApiReadIndex

(* -------------- the same calls on both implementations ---------------- *)
(* One sequence of frame writes, detection writes and reads, each applied to
   the real segments (mock_camera_daemon as producer, one RealSharedMemory
   object writing detections, one reading) and to one MockSharedMemory.
   Every call runs alone, from start to end. *)

EqInit == eq_result = [op |-> "none", real |-> None, mock |-> None]

\* what a caller sees of read_latest_frame: a frame number, or None for
\* no new frame
FrameOutcome(frame) ==
  IF frame = None THEN None ELSE [frame_number |-> frame.frame_number]

\* the variables of the three parts a frame write leaves alone
EqWriteFrameKeeps ==
  <<cam_pc, cam_chunk, rd_pc, rd_write_index, rd_chunk, rd_buf,
    last_read_frame_number, total_frames_read, rd_result, accepted, rd_calls,
    rd_stable, lockstep, accept_progress, detVars, mk_frame_lock,
    mk_detection_result, mk_detection_version, mk_detection_lock, mk_pc,
    mk_frame, mk_read_detection, mk_last_frame_number, mk_detection_count,
    mk_detections, eq_result>>

(* mock_camera_daemon.main, lines 104-116, one whole iteration, and
   MockSharedMemory.write_frame, lines 66-71 *)
EquivWriteFrame ==
  /\ UNCHANGED NotEq
  /\ mk_frame_counter < MaxMockFrames
  /\ LET idx == cam_write_index % RING_BUFFER_SIZE
         base == WriterFrameOffset(idx)
         bytes == CFrameBytes(cam_frame_number, cam_frame_number)
     IN frame_shm' = [a \in 0..ShmWords - 1 |->
                        IF a = 0 THEN (cam_write_index + 1) % WordBase
                        ELSE IF a >= base /\ a < base + CFrameWords
                        THEN bytes[a - base + 1] ELSE frame_shm[a]]
  /\ cam_write_index' = cam_write_index + 1
  /\ cam_frame_number' = cam_frame_number + 1
  /\ mk_frame_counter' = mk_frame_counter + 1
  /\ mk_frame_buffer' = DequeAppend(mk_frame_buffer,
                                    [frame_number |-> mk_frame_counter + 1])
  /\ UNCHANGED EqWriteFrameKeeps

\* the variables of the three parts a frame read leaves alone
EqReadFrameKeeps ==
  <<frame_shm, cam_pc, cam_frame_number, cam_write_index, cam_chunk, rd_pc,
    rd_chunk, rd_buf, rd_stable, lockstep, detVars, mk_frame_buffer,
    mk_frame_lock, mk_frame_counter, mk_detection_result,
    mk_detection_version, mk_detection_lock, mk_pc, mk_read_detection,
    mk_last_frame_number, mk_detection_count, mk_detections>>

(* RealSharedMemory.read_latest_frame (get_latest_frame, lines 479-528) and
   MockSharedMemory.read_latest_frame, lines 80-92 *)
EquivReadLatestFrame ==
  /\ UNCHANGED NotEq
  /\ rd_calls < MaxPolls
  /\ rd_calls' = rd_calls + 1
  /\ rd_write_index' = frame_shm[0]
  /\ IF frame_shm[0] = 0
     THEN /\ rd_result' = None
          /\ UNCHANGED <<last_read_frame_number, total_frames_read, accepted,
                         accept_progress>>
     ELSE LET base == ReaderFrameOffset((frame_shm[0] - 1) % RING_BUFFER_SIZE)
          IN RdFinish([j \in 1..CFrameWords |-> frame_shm[base + j - 1]])
  /\ mk_frame' = [mk_frame EXCEPT !["monitor"] =
       IF mk_frame_buffer = <<>> THEN None
       ELSE mk_frame_buffer[Len(mk_frame_buffer)]]
  /\ eq_result' = [op |-> "read_latest_frame",
                   real |-> FrameOutcome(rd_result'),
                   mock |-> FrameOutcome(mk_frame'["monitor"])]
  /\ UNCHANGED EqReadFrameKeeps

(* the detector process opens the channel for writing when it starts:
   open_detection_write; a MockSharedMemory has its channel from
   construction *)
EquivOpenDetectionWrite ==
  /\ UNCHANGED NotEq
  /\ ~wr_open
  /\ open_detection_write
  /\ UNCHANGED <<wr_last_version, det_written, ringVars, mockVars, eq_result>>

(* RealSharedMemory.write_detection_result, lines 716-761, and
   MockSharedMemory.write_detection, lines 146-150 *)
EquivWriteDetection ==
  /\ UNCHANGED NotEq
  /\ Len(det_written) < MaxDetWrites
  /\ \E fn \in DetFrameNumbers, dets \in DetectionInputs :
       /\ write_detection_result(fn, dets)
       /\ mk_detection_result' =
            [frame_number |-> fn, detections |-> dets,
             version |-> mk_detection_version + 1]
  /\ mk_detection_version' = mk_detection_version + 1
  /\ UNCHANGED <<det_exists, wr_open, wr_starts, mon_open, mon_last_version,
                 mon_result, mon_polls, det_sized, wr_created, mon_op,
                 mon_raised, mon_other_calls, ringVars, mk_frame_buffer,
                 mk_frame_lock, mk_frame_counter, mk_detection_lock, mk_pc,
                 mk_frame, mk_read_detection, mk_last_frame_number,
                 mk_detection_count, mk_detections, eq_result>>

(* RealSharedMemory.read_detection, lines 591-631, or
   get_detection_version, lines 576-589, and the call of the same name of
   MockSharedMemory, lines 152-171: the version each returns *)
EquivReadDetection ==
  /\ UNCHANGED NotEq
  /\ MonitorCalls < MaxPolls
  /\ mon_other_calls' = mon_other_calls + 1
  /\ \E op \in {"read_detection", "get_detection_version"} :
       LET r == ReadDetectionStruct(det_slot, mon_last_version)
           mapped == TryOpenDetectionReadonly = "mapped"
       IN
       /\ mon_op' = op
       /\ mon_open' = mapped
       /\ mon_last_version' = IF mapped THEN r.last ELSE mon_last_version
       /\ mon_result' =
            IF op = "get_detection_version"
            THEN [version |-> IF mapped THEN r.c_det.version
                              ELSE mon_last_version]
            ELSE IF mapped THEN DetectionsOf(r.c_det) ELSE None
       /\ eq_result' = [op |-> op,
                        real |-> IF mapped THEN r.c_det.version
                                 ELSE mon_last_version,
                        mock |-> mk_detection_version]
  /\ mk_read_detection' = [mk_read_detection EXCEPT !["monitor"] =
       <<mk_detection_result, mk_detection_version>>]
  /\ UNCHANGED <<det_exists, det_slot, wr_open, wr_last_version, wr_starts,
                 det_written, mon_polls, det_sized, wr_created, mon_raised,
                 ringVars, mk_frame_buffer, mk_frame_lock, mk_frame_counter,
                 mk_detection_result, mk_detection_version, mk_detection_lock,
                 mk_pc, mk_frame, mk_last_frame_number, mk_detection_count,
                 mk_detections>>

EquivNext ==
  \/ EquivWriteFrame \/ EquivReadLatestFrame
  \/ EquivOpenDetectionWrite \/ EquivWriteDetection \/ EquivReadDetection

(* --------------------------- hb_mem buffers --------------------------- *)
(* hb_mem_bindings: HbMemBuffer and HbMemGraphicBuffer objects, made by
   import_nv12_planes and import_nv12_graph_buf and released by release(),
   __exit__ and __del__. The library hands out a new fd with every import. *)

\* the locals of an import call that is not running
NoCall == [fn |-> "none", layout |-> "none", buffers |-> <<>>, i |-> 1]

HbInit ==
  /\ hb_bufs = <<>>
  /\ hb_free_calls = <<>>
  /\ hb_pc = "idle"
  /\ hb_call = NoCall
  /\ hb_releases = 0
  /\ hb_released = 0

\* the fds release() passes to hb_mem_free_buf: HbMemBuffer frees _buf.fd,
\* HbMemGraphicBuffer each fd > 0 of its planes once (released_fds)
FdsToFree(buf) ==
  {buf.fd[i] : i \in 1..buf.plane_cnt} \ {0}

\* release() that leaves _imported set
release_KeepsImported(b) ==
  /\ hb_bufs' = hb_bufs
  /\ hb_free_calls' =
       IF hb_bufs[b].imported
       THEN [fd \in DOMAIN hb_free_calls |->
               IF fd \in FdsToFree(hb_bufs[b]) THEN hb_free_calls[fd] + 1
               ELSE hb_free_calls[fd]]
       ELSE hb_free_calls
  /\ hb_released' = b

(* HbMemBuffer.release, lines 357-374, and HbMemGraphicBuffer.release,
   lines 631-653: nothing when not imported; else hb_mem_free_buf for the
   fds and _imported = False *)
release(b) ==
  /\ hb_bufs' = [hb_bufs EXCEPT ![b].imported = FALSE]
  /\ hb_free_calls' =
       IF hb_bufs[b].imported
       THEN [fd \in DOMAIN hb_free_calls |->
               IF fd \in FdsToFree(hb_bufs[b]) THEN hb_free_calls[fd] + 1
               ELSE hb_free_calls[fd]]
       ELSE hb_free_calls
  /\ hb_released' = b

(* a caller's release(), a context-manager exit (__exit__, lines 384-387
   and 661-663) or a destructor run (__del__, lines 376-378 and 655-656) on
   any object, between import calls *)
Release ==
  /\ UNCHANGED NotHb
  /\ hb_pc = "idle"
  /\ hb_releases < MaxReleaseCalls
  /\ \E b \in 1..Len(hb_bufs) : release(b)
  /\ hb_releases' = hb_releases + 1
  /\ UNCHANGED <<hb_pc, hb_call>>

(* import_nv12_planes, lines 689-692 and 704-706: the call begins with
   separate share ids for Y and UV, or with share_id_uv = 0 *)
ImportNv12PlanesCall ==
  /\ UNCHANGED NotHb
  /\ hb_pc = "idle"
  /\ \E layout \in {"separate", "contiguous"} :
       /\ Len(hb_bufs) + (IF layout = "separate" THEN 2 ELSE 1) <= MaxHbBuffers
       /\ hb_call' = [fn |-> "import_nv12_planes", layout |-> layout,
                      buffers |-> <<>>, i |-> 1]
  /\ hb_pc' = "import"
  /\ UNCHANGED <<hb_bufs, hb_free_calls, hb_releases, hb_released>>

(* HbMemBuffer.import_from_share_id -> __init__, lines 237-275, and
   buffers.append (lines 693-697, 706-707): hb_mem_import_com_buf returns 0
   and the object is imported, or it does not and __init__ raises *)
ImportBuffer ==
  /\ UNCHANGED NotHb
  /\ hb_pc = "import"
  /\ \E ret \in {0, -1} :
       IF ret = 0
       THEN LET fd == Len(hb_free_calls) + 1 IN
            /\ hb_bufs' = Append(hb_bufs,
                 [kind |-> "HbMemBuffer", imported |-> TRUE,
                  fd |-> <<fd, 0, 0>>, plane_cnt |-> 1])
            /\ hb_free_calls' = Append(hb_free_calls, 0)
            /\ hb_call' = [hb_call EXCEPT !.buffers = Append(@, Len(hb_bufs) + 1)]
            /\ hb_pc' = IF hb_call.layout = "separate"
                        THEN (IF Len(hb_call.buffers) = 0 THEN "import"
                              ELSE "as_numpy")
                        ELSE "check_size"
       ELSE /\ hb_pc' = "except"
            /\ UNCHANGED <<hb_bufs, hb_free_calls, hb_call>>
  /\ UNCHANGED <<hb_releases, hb_released>>

(* import_nv12_planes, lines 699-702: as_numpy on both buffers, which
   returns or raises, and the return *)
ImportAsNumpy ==
  /\ UNCHANGED NotHb
  /\ hb_pc = "as_numpy"
  /\ \E raises \in BOOLEAN : hb_pc' = IF raises THEN "except" ELSE "returned"
  /\ UNCHANGED <<hb_bufs, hb_free_calls, hb_call, hb_releases, hb_released>>

(* import_nv12_planes, lines 709-725: as_numpy returns or raises; the UV
   plane lies in the buffer and the call returns, or it does not and the
   else branch releases the buffers before it raises *)
ImportCheckSize ==
  /\ UNCHANGED NotHb
  /\ hb_pc = "check_size"
  /\ \E next \in {"except", "returned", "release_else"} : hb_pc' = next
  /\ UNCHANGED <<hb_bufs, hb_free_calls, hb_call, hb_releases, hb_released>>

\* the clean-up loops without the call of release
ImportCleanup_NoRelease ==
  /\ UNCHANGED NotHb
  /\ hb_pc \in {"release_else", "except"}
  /\ IF hb_call.i <= Len(hb_call.buffers)
     THEN /\ hb_call' = [hb_call EXCEPT !.i = @ + 1]
          /\ UNCHANGED <<hb_pc, hb_bufs, hb_free_calls, hb_released>>
     ELSE /\ hb_pc' = IF hb_pc = "release_else" THEN "except" ELSE "raised"
          /\ hb_call' = [hb_call EXCEPT !.i = 1]
          /\ UNCHANGED <<hb_bufs, hb_free_calls, hb_released>>
  /\ UNCHANGED hb_releases

(* import_nv12_planes, lines 722-724 ("for b in buffers: b.release()", then
   raise) and lines 729-733 ("except Exception: for buf in buffers:
   buf.release(); raise"); import_nv12_graph_buf, lines 780-782 *)
ImportCleanup ==
  /\ UNCHANGED NotHb
  /\ hb_pc \in {"release_else", "except"}
  /\ IF hb_call.i <= Len(hb_call.buffers)
     THEN /\ release(hb_call.buffers[hb_call.i])
          /\ hb_call' = [hb_call EXCEPT !.i = @ + 1]
          /\ UNCHANGED hb_pc
     ELSE /\ hb_pc' = IF hb_pc = "release_else" THEN "except" ELSE "raised"
          /\ hb_call' = [hb_call EXCEPT !.i = 1]
          /\ UNCHANGED <<hb_bufs, hb_free_calls, hb_released>>
  /\ UNCHANGED hb_releases

\* what HbMemGraphicBuffer.__init__ leaves in _fd and _plane_cnt when the
\* library's next fd is fd: one buffer for all planes (_import_contiguous,
\* lines 516-521) or what hb_mem_import_graph_buf returned (_import_graph_buf,
\* lines 568-576), with one fd per plane or one fd for both
GraphicBufferShapes(fd) ==
  {[fd |-> <<fd, 0, 0>>, plane_cnt |-> 2, fds |-> 1],
   [fd |-> <<fd, 0, 0>>, plane_cnt |-> 3, fds |-> 1],
   [fd |-> <<fd, 0, 0>>, plane_cnt |-> 1, fds |-> 1],
   [fd |-> <<fd, fd, 0>>, plane_cnt |-> 2, fds |-> 1],
   [fd |-> <<fd, fd + 1, 0>>, plane_cnt |-> 2, fds |-> 2]}

(* import_nv12_graph_buf, line 762: HbMemGraphicBuffer(raw_buf_data), lines
   434-488, outside the try block: it raises with nothing imported, or the
   object is imported *)
ImportNv12GraphBufCall ==
  /\ UNCHANGED NotHb
  /\ hb_pc = "idle"
  /\ Len(hb_bufs) < MaxHbBuffers
  /\ \E raises \in BOOLEAN :
       IF raises
       THEN /\ hb_pc' = "raised"
            /\ hb_call' = [fn |-> "import_nv12_graph_buf", layout |-> "none",
                           buffers |-> <<>>, i |-> 1]
            /\ UNCHANGED <<hb_bufs, hb_free_calls>>
       ELSE \E shape \in GraphicBufferShapes(Len(hb_free_calls) + 1) :
            /\ hb_bufs' = Append(hb_bufs,
                 [kind |-> "HbMemGraphicBuffer", imported |-> TRUE,
                  fd |-> shape.fd, plane_cnt |-> shape.plane_cnt])
            /\ hb_free_calls' = hb_free_calls \o [k \in 1..shape.fds |-> 0]
            /\ hb_call' = [fn |-> "import_nv12_graph_buf", layout |-> "none",
                           buffers |-> <<Len(hb_bufs) + 1>>, i |-> 1]
            /\ hb_pc' = "planes"
  /\ UNCHANGED <<hb_releases, hb_released>>

(* import_nv12_graph_buf, lines 763-779: invalidate_cache, get_plane_array(0)
   and get_plane_array(1), which raises when the buffer has one plane or a
   plane has no data; then the return *)
ImportReadPlanes ==
  /\ UNCHANGED NotHb
  /\ hb_pc = "planes"
  /\ \E raises \in BOOLEAN :
       /\ hb_bufs[hb_call.buffers[1]].plane_cnt < 2 => raises
       /\ hb_pc' = IF raises THEN "except" ELSE "returned"
  /\ UNCHANGED <<hb_bufs, hb_free_calls, hb_call, hb_releases, hb_released>>

(* the import call has returned its handles or raised, and the caller
   goes on *)
ImportEnds ==
  /\ UNCHANGED NotHb
  /\ hb_pc \in {"returned", "raised"}
  /\ hb_pc' = "idle"
  /\ hb_call' = NoCall
  /\ UNCHANGED <<hb_bufs, hb_free_calls, hb_releases, hb_released>>

HbNext ==
  \/ Release
  \/ ImportNv12PlanesCall \/ ImportBuffer \/ ImportAsNumpy \/ ImportCheckSize
  \/ ImportCleanup
  \/ ImportNv12GraphBufCall \/ ImportReadPlanes
  \/ ImportEnds

(* ------------------- any slot in the detection segment ---------------- *)
(* The detection segment is a file in /dev/shm that every process can map
   and write. The reader converts whatever CLatestDetectionResult it finds:
   get_latest_detections and read_detection of RealSharedMemory. *)

\* the values of the c_int num_detections a reader may find: negative, in
\* range, and above the array's length
NumDetectionsFound == (0 - 1)..(MAX_DETECTIONS + 1)

\* the contents of the detections array a reader may find
DetectionsFound == [1..MAX_DETECTIONS -> {"cat", "dog"}]

SlInit ==
  /\ sl_slot = ZeroSlot
  /\ sl_last_version = 0
  /\ sl_pc = "idle"
  /\ sl_op = "none"
  /\ sl_c_det = ZeroSlot
  /\ sl_i = 0
  /\ sl_detections = <<>>
  /\ sl_indexed = {}
  /\ sl_result = None
  /\ sl_raised = FALSE
  /\ sl_calls = 0

(* a process that maps the segment stores a result with the next version;
   CLatestDetectionResult, lines 121-128: num_detections is a c_int *)
SlotStored ==
  /\ UNCHANGED NotSl
  /\ sl_slot.version < MaxDetWrites
  /\ \E n \in NumDetectionsFound, dets \in DetectionsFound, fn \in DetFrameNumbers :
       sl_slot' = [frame_number |-> fn, num_detections |-> n,
                   detections |-> dets, version |-> sl_slot.version + 1]
  /\ UNCHANGED <<sl_last_version, sl_pc, sl_op, sl_c_det, sl_i, sl_detections,
                 sl_indexed, sl_result, sl_raised, sl_calls>>

(* get_latest_detections, lines 545-554, and read_detection, lines 602-608:
   _read_detection_struct copies the slot; get_latest_detections returns
   None without a new version; else the conversion loop begins *)
SlotReadBegins ==
  /\ UNCHANGED NotSl
  /\ sl_pc = "idle"
  /\ sl_calls < MaxPolls
  /\ sl_calls' = sl_calls + 1
  /\ \E op \in {"get_latest_detections", "read_detection"} :
       LET r == ReadDetectionStruct(sl_slot, sl_last_version) IN
       /\ sl_op' = op
       /\ sl_last_version' = r.last
       /\ sl_c_det' = r.c_det
       /\ sl_i' = 0
       /\ sl_detections' = <<>>
       /\ sl_indexed' = {}
       /\ sl_raised' = FALSE
       /\ IF op = "get_latest_detections" /\ ~r.has_new_version
          THEN sl_pc' = "idle" /\ sl_result' = None
          ELSE sl_pc' = "loop" /\ sl_result' = sl_result
  /\ UNCHANGED sl_slot

(* get_latest_detections, lines 555-570, and read_detection, lines 609-631:
   "for i in range(c_det.num_detections): c_detection = c_det.detections[i]"
   one iteration, or the return after the loop; an index outside the ctypes
   array raises IndexError *)
SlotReadLoop ==
  /\ UNCHANGED NotSl
  /\ sl_pc = "loop"
  /\ IF sl_i < sl_c_det.num_detections
     THEN /\ sl_indexed' = sl_indexed \cup {sl_i}
          /\ IF sl_i \in 0..(MAX_DETECTIONS - 1)
             THEN /\ sl_detections' = Append(sl_detections, sl_c_det.detections[sl_i + 1])
                  /\ sl_i' = sl_i + 1
                  /\ UNCHANGED <<sl_pc, sl_result, sl_raised>>
             ELSE /\ sl_raised' = TRUE
                  /\ sl_result' = Raised
                  /\ sl_pc' = "idle"
                  /\ UNCHANGED <<sl_detections, sl_i>>
     ELSE /\ sl_result' = [version |-> sl_c_det.version,
                           detections |-> sl_detections]
          /\ sl_pc' = "idle"
          /\ UNCHANGED <<sl_indexed, sl_detections, sl_i, sl_raised>>
  /\ UNCHANGED <<sl_slot, sl_last_version, sl_op, sl_c_det, sl_calls>>

SlNext == SlotStored \/ SlotReadBegins \/ SlotReadLoop

(* ------------------------- frame ring: claims ------------------------- *)

C7_RoundTrip ==
  (rd_pc = "idle" /\ rd_calls > 0 /\ rd_stable /\ rd_result # None)
    => rd_result = FrameWritten(rd_write_index, rd_write_index)

\* C8: whenever write_index = k >= 1 is visible in the segment, the slot the
\* daemon wrote for index k-1 holds all of bytes(c_frame) of frame k.
C8_IndexAfterSlot ==
  LET k == frame_shm[0] IN
  k >= 1 =>
    \A j \in 0..CFrameWords - 1 :
      frame_shm[WriterFrameOffset((k - 1) % RING_BUFFER_SIZE) + j]
        = CFrameBytes(k, k)[j + 1]

\* C8 witness: an index is published, the ring has wrapped and the daemon
\* is in the middle of copying the next slot.
C8_Witness ==
  /\ frame_shm[0] > RING_BUFFER_SIZE
  /\ cam_pc = "slot"
  /\ cam_chunk > 0
  /\ cam_chunk < CFrameWords

\* C9: a reader that finished exactly one call after each of the k writes
\* so far accepted 1, 2, ..., k; a reader whose first call ran after the
\* last write accepted exactly that last frame.
C9_Scenario ==
  /\ (lockstep /\ rd_pc = "idle" /\ CamAtRest /\ rd_calls = cam_write_index)
       => accepted = [i \in 1..cam_write_index |-> i]
  /\ (rd_calls = 1 /\ rd_pc = "idle" /\ rd_stable /\ rd_write_index = MaxFrames)
       => accepted = <<MaxFrames>>

\* the CFrame a call of get_latest_frame has copied when its last read step
\* is taken
RdCopied ==
  LET latest_idx == (rd_write_index - 1) % RING_BUFFER_SIZE
      base == ReaderFrameOffset(latest_idx)
      n == CFrameWords - rd_chunk
  IN rd_buf \o [j \in 1..n |-> frame_shm[base + rd_chunk + j - 1]]

\* the step in which a call of get_latest_frame that copied a slot returns
RdReturns == rd_pc = "read" /\ rd_pc' = "idle"

\* C25: a call of get_latest_frame that copied a slot whose data_size is
\* greater than MAX_FRAME_SIZE returns None.
C25_OversizeSlotDropped ==
  [][(RdReturns /\ U64At(RdCopied, OFF_data_size) > MaxDataWords)
       => rd_result' = None]_vars

\* the step in which a call of get_latest_frame returns
RdCallEnds == rd_calls' = rd_calls + 1

\* C30: a call of get_latest_frame that ends when the daemon has written
\* nothing since the call that last accepted a frame returns None and
\* leaves last_read_frame_number and total_frames_read as they are; and no
\* frame number is accepted twice.
C30_NoNewFrameNoAccept ==
  /\ [][(RdCallEnds /\ accept_progress = CamProgress)
          => /\ rd_result' = None
             /\ UNCHANGED <<last_read_frame_number, total_frames_read,
                            accepted>>]_vars
  /\ [](\A i, j \in 1..Len(accepted) : i < j => accepted[i] # accepted[j])

\* C30 witness: after a frame was accepted a further call has returned None
\* with the cursor on the accepted frame, and the daemon has written nothing
\* in between.
C30_Witness ==
  /\ rd_pc = "idle"
  /\ accepted # <<>>
  /\ accept_progress = CamProgress
  /\ rd_result = None
  /\ last_read_frame_number = accepted[Len(accepted)]
  /\ total_frames_read = Len(accepted)

\* C31: a call of get_latest_frame that finds write_index = 0 returns None
\* in that one step, copies no slot and leaves last_read_frame_number and
\* total_frames_read alone; and the first call that finds the first write,
\* with the daemon standing still, returns the first frame.
C31_NoDataYetThenFirstFrame ==
  [][/\ (rd_pc = "idle" /\ rd_write_index' = 0 /\ RdCallEnds)
          => /\ rd_result' = None
             /\ rd_pc' = "idle"
             /\ UNCHANGED <<rd_buf, rd_chunk, last_read_frame_number,
                            total_frames_read, accepted>>
     /\ (RdReturns /\ rd_stable /\ rd_write_index = 1
           /\ total_frames_read = 0)
          => rd_result' = FrameWritten(1, 1)]_vars

\* C32: no step makes the write_index stored in the segment smaller.
C32_WriteIndexNeverDecreases ==
  [][frame_shm'[0] >= frame_shm[0]]_vars

(* ------------------- two threads, one mapping: claims ----------------- *)

\* the step in which the request thread's get_stats() ends
ApiReturns == mon_pc["api"] = "read_index" /\ mon_pc'["api"] = "idle"

\* C33: frames_processed never exceeds the write_index in the segment, and
\* every get_stats() of the request thread returns, with
\* total_frames_written at least frames_processed and frame_count =
\* min(write_index, RING_BUFFER_SIZE), at least 1 once a frame was processed.
C33_ProcessedAtMostWritten ==
  /\ [](frames_processed <= frame_shm[0])
  /\ [][ApiReturns
          => /\ api_stats' # Raised
             /\ frames_processed <= api_stats'.total_frames_written
             /\ api_stats'.frame_count = Min(frame_shm[0], RING_BUFFER_SIZE)
             /\ (frames_processed >= 1 => api_stats'.frame_count >= 1)]_vars

\* the step in which thread t reads the 4 bytes of write_index
ReadsIndex(t) == mon_pc[t] = "read_index" /\ mon_pc'[t] # "read_index"

\* the step in which the overlay thread reads the slot
ReadsSlot ==
  mon_pc["overlay"] = "read_slot" /\ mon_pc'["overlay"] # "read_slot"

\* C37: every read of write_index is made at offset 0, and every read of a
\* slot at the frame_offset its call of get_latest_frame computed.
C37_ReadsAtOwnOffset ==
  [][/\ \A t \in {"overlay", "api"} : ReadsIndex(t) => frame_mmap_pos = 0
     /\ ReadsSlot
          => frame_mmap_pos =
               ReaderFrameOffset((rd_write_index - 1) % RING_BUFFER_SIZE)]_vars

(* ------------------ the two implementations: claims ------------------- *)

\* C34: every read made on both implementations after the same calls gives
\* the same outcome: the same frame number or no new frame from
\* read_latest_frame, the same version from read_detection and
\* get_detection_version.
C34_SameOutcomes == eq_result.real = eq_result.mock

(* --------------------- detection channel: claims ---------------------- *)

\* C4: every write stores a version greater than the version the previous
\* write to the channel stored.
C4_VersionIncreasing ==
  \A i \in 2..Len(det_written) :
    det_written[i - 1].version < det_written[i].version

\* poll number p is the first poll made after write number k
FirstPollAfter(p, k) ==
  /\ mon_polls[p].after = k
  /\ p > 1 => mon_polls[p - 1].after < k

\* C10: two consecutive writes with zero detections and different
\* frame_number, each followed by a poll before the next write (the reader
\* making no other call): both polls report a change.
C10_TwoEmptyWritesTwoEvents ==
  \A k \in 1..Len(det_written) - 1 :
    \A p \in 1..Len(mon_polls) - 1 :
      ( /\ mon_other_calls = 0
        /\ det_written[k].given = 0
        /\ det_written[k + 1].given = 0
        /\ det_written[k].frame_number # det_written[k + 1].frame_number
        /\ FirstPollAfter(p, k)
        /\ FirstPollAfter(p + 1, k + 1) )
      => (mon_polls[p].changed /\ mon_polls[p + 1].changed)

\* C11: for a reader that polls with get_latest_detections() only, the first
\* poll made after the latest write reports a change, returns the content of
\* that write and leaves the reader's last-seen version equal to its version,
\* however many earlier writes the reader has missed.
C11_FinalObserved ==
  LET p == Len(mon_polls)
      k == Len(det_written)
  IN (p >= 1 /\ k >= 1 /\ FirstPollAfter(p, k)
      /\ mon_other_calls = 0 /\ mon_op = "get_latest_detections")
     => /\ mon_polls[p].changed
        /\ mon_result = DetectionsOf(det_slot)
        /\ mon_last_version = det_written[k].version

\* C12: a call of get_detection_version() leaves the reader's
\* last_detection_version as it was.
C12_VersionGetterKeepsCursor ==
  [][(mon_op' = "get_detection_version"
      /\ mon_other_calls' # mon_other_calls)
     => mon_last_version' = mon_last_version]_vars

\* C13: no call of read_detection() or get_detection_version() raises; a call
\* made while the channel is unavailable returns None or the last version,
\* and a read_detection() made once the writer has finished opening returns
\* the slot.
C13_LazyOpenNeverRaises ==
  /\ ~mon_raised
  /\ (mon_op = "read_detection" /\ ~mon_open) => mon_result = None
  /\ (mon_op = "get_detection_version" /\ ~mon_open)
       => mon_result = [version |-> mon_last_version]

\* the step in which a call of write_detection_result returns
WritesDetection == Len(det_written') = Len(det_written) + 1

\* C27: a call of write_detection_result with k records stores
\* num_detections = min(k, MAX_DETECTIONS) and the first min(k,
\* MAX_DETECTIONS) records in their order, and writes the writer's version
\* incremented by one.
C27_DetectionsClamped ==
  [][WritesDetection =>
       LET given == det_written'[Len(det_written')].detections
           kept == Min(Len(given), MAX_DETECTIONS)
       IN /\ det_slot'.num_detections = kept
          /\ \A i \in 1..kept : det_slot'.detections[i] = given[i]
          /\ wr_last_version' = wr_last_version + 1
          /\ det_slot'.version = wr_last_version']_vars

\* C27 witness: the last call passed more than MAX_DETECTIONS records and
\* the slot holds MAX_DETECTIONS of them under the version of that call.
C27_Witness ==
  /\ det_written # <<>>
  /\ Len(det_written[Len(det_written)].detections) > MAX_DETECTIONS
  /\ det_slot.num_detections = MAX_DETECTIONS
  /\ det_slot.version = det_written[Len(det_written)].version

\* the step in which a call of open_detection_write returns
OpensDetectionWrite == ~wr_open /\ wr_open'

DaemonInFlight == d_pc \in {"got", "imported", "infer", "release"}

C3_TakenThenConsumed ==
  d_pc \in {"loop", "stopped"} => d_pending = {}

\* C14: a descriptor whose plane_cnt is not 2 is acknowledged by the time
\* the daemon is ready to take the next descriptor, and the daemon is still
\* running its loop then.
C14_BadPlaneCountAcknowledged ==
  \A c \in Cameras :
    (zc[c].version > 0 /\ zc[c].plane_cnt # 2
     /\ zc_last_version[c] = zc[c].version /\ d_pc = "loop")
    => zc[c].consumed

\* C15: the consumed flag of a descriptor is written only when no buffer
\* imported for it is still imported, inference reads the planes only while
\* the buffer is imported, and consumed_sem is posted only after the
\* consumed flag has been written.
C15_ReleaseBeforeAcknowledge ==
  [][\A c \in Cameras :
       /\ (~zc[c].consumed /\ zc'[c].consumed) => d_buffer' # "imported"
       /\ (d_pc = "infer" /\ d_pc' = "release") => d_buffer = "imported"
       /\ zc'[c].consumed_sem > zc[c].consumed_sem => zc[c].consumed]_vars

\* C15 witness: a descriptor whose buffer was imported has gone through
\* inference, release and the whole of mark_consumed.
C15_Witness ==
  /\ d_pc = "loop"
  /\ d_buffer = "released"
  /\ d_frames_processed > 0
  /\ zc[d_active].consumed
  /\ zc[d_active].consumed_sem > 0

\* the detections the daemon has for the frame (direct mode) or for the ROI
\* cycle (ROI mode) it is about to finish
DaemonCycleDetections ==
  IF d_roi
  THEN MergeDetections(
         AllDetections([d_cache EXCEPT ![d_roi_index] = d_detections],
                       RoiRegions))
  ELSE d_detections

\* the step in which the daemon finishes a frame (direct mode) or the last
\* frame of a ROI cycle (ROI mode) with no detection
DaemonFinishesEmpty ==
  /\ d_pc = "finish"
  /\ d_pc' = "loop"
  /\ ~d_roi \/ (d_roi_index + 1) % RoiRegions = 0
  /\ DaemonCycleDetections = <<>>

\* C26: when the detector finishes a frame or a full ROI cycle with no
\* detection, it writes an empty detection result with a new version.
C26_EmptyResultWritten ==
  [][DaemonFinishesEmpty
       => /\ det_slot'.version # det_slot.version
          /\ det_slot'.num_detections = 0]_vars

\* C29: a consumer that finds its channel absent does not fail for good:
\* the detector daemon, started before the capture daemon has created the
\* channels, does not end with an error.
C29_AbsentChannelRetryable == d_pc # "failed"

(* --------------------- switch controller: claims ---------------------- *)

\* an evaluation has found the hold time elapsed and is calling _switch_to
EvaluationSwitching(t) ==
  t \in {"capture", "probe"} /\ sw_pc[t] = "switch_to"

\* C5: once an evaluation with DAY active has found the DAY average below
\* the threshold for the whole hold time and goes on to switch, the switch is
\* performed (the active camera becomes NIGHT) and that evaluation returns.
C5_SwitchCompletes ==
  \A t \in {"capture", "probe"} :
    (EvaluationSwitching(t) /\ sw_local[t].target = NIGHT)
      ~> (sw_active = NIGHT /\ ~EvaluationSwitching(t))

\* the capture loop calls shm.write_frame(frame) in this step
WritesFrame ==
  \E t \in {"capture", "probe"} : sw_pc[t] = "write" /\ sw_pc'[t] = "top"

\* C6: on every switch the warm-up counter is set to warmup_frames, and
\* whenever a frame is written to the ring the control channel already names
\* the camera the frame comes from, so the control-channel write precedes the
\* first frame of the newly active camera.
C6_ControlBeforeFrame ==
  [][/\ (sw_active' # sw_active => sw_warmup_remaining' = WARMUP_FRAMES)
     /\ (WritesFrame => ctl_active_camera = sw_last_frame'.camera_id)]_vars

\* thread t makes its call of _evaluate_switch in this step
Evaluates(t) == sw_pc[t] = "evaluate" /\ sw_pc'[t] # "evaluate"

\* thread t's call of _evaluate_switch goes on to _switch_to(target) in this
\* step
DecidesSwitch(t, target) ==
  Evaluates(t) /\ sw_pc'[t] = "switch_to" /\ sw_local'[t].target = target

\* C16: with DAY active in AUTO mode, an evaluation that finds the DAY average
\* at or above day_to_night_threshold sets the below-threshold timer to None
\* and does not switch, and an evaluation goes on to switch to NIGHT only
\* when the evaluations since the last one that did not find the average
\* below the threshold (or since the last mode change or switch) have all
\* found it below and the first of them is at least the hold time older (by
\* the "now" the evaluations were given).
C16_DipMustBeHeld ==
  [][\A t \in {"capture", "probe"} :
       /\ ( /\ Evaluates(t)
            /\ sw_active = DAY
            /\ sw_switch_mode = "auto"
            /\ sw_history[DAY] # <<>>
            /\ ~AverageBelow(sw_history[DAY], day_to_night_threshold) )
          => /\ sw_below_since' = NoValue
             /\ sw_pc'[t] # "switch_to"
             /\ sw_active' = sw_active
       /\ DecidesSwitch(t, NIGHT)
          => /\ sw_dip_since' # NoValue
             /\ sw_local[t].now - sw_dip_since' >= HOLD_SECONDS]_vars

\* C16 witness: with DAY active in AUTO mode a below-threshold timer was
\* running for less than the hold time, and the latest evaluation has found
\* the average at or above the threshold, reset the timer and returned
\* without switching.
C16_Witness ==
  /\ sw_dip_abandoned
  /\ sw_switch_mode = "auto"
  /\ sw_active = DAY
  /\ sw_below_since = NoValue
  /\ \A t \in {"capture", "probe"} : ~EvaluationSwitching(t)

\* the average of the samples lies in the hysteresis band, ends included
InBand(history) ==
  /\ history # <<>>
  /\ SumSeq(history) >= day_to_night_threshold * Len(history)
  /\ SumSeq(history) <= night_to_day_threshold * Len(history)

\* C17: an evaluation goes on to switch to DAY only with NIGHT active in AUTO
\* mode and when the evaluations since the last one that did not find the DAY
\* average above night_to_day_threshold (or since the last mode change or
\* switch) have all found it above and the first of them is at least the hold
\* time older; with NIGHT active in AUTO mode an evaluation that does not
\* find the average above the threshold sets the above-threshold timer to
\* None; and no evaluation that finds the average inside the band goes on to
\* switch or changes the active camera.
C17_RiseMustBeHeld ==
  [][\A t \in {"capture", "probe"} :
       /\ DecidesSwitch(t, DAY)
          => /\ sw_active = NIGHT
             /\ sw_switch_mode = "auto"
             /\ sw_rise_since' # NoValue
             /\ sw_local[t].now - sw_rise_since' >= HOLD_SECONDS
       /\ ( /\ Evaluates(t)
            /\ sw_active = NIGHT
            /\ sw_switch_mode = "auto"
            /\ sw_history[DAY] # <<>>
            /\ SumSeq(sw_history[DAY])
                 <= night_to_day_threshold * Len(sw_history[DAY]) )
          => sw_above_since' = NoValue
       /\ (Evaluates(t) /\ InBand(sw_history[DAY]))
          => /\ sw_pc'[t] # "switch_to"
             /\ sw_active' = sw_active]_vars

\* C17 witness: with NIGHT active in AUTO mode the DAY average has been above
\* the threshold for the hold time and an evaluation is switching to DAY.
C17_Witness ==
  /\ sw_active = NIGHT
  /\ sw_switch_mode = "auto"
  /\ sw_rise_since # NoValue
  /\ \E t \in {"capture", "probe"} :
       /\ EvaluationSwitching(t)
       /\ sw_local[t].target = DAY
       /\ sw_local[t].now - sw_rise_since >= HOLD_SECONDS

\* C18: while manual_override is set, a call of _evaluate_switch changes
\* neither active_camera nor a hold timer nor the warm-up counter and does
\* not go on to _switch_to, and every change of the active camera made while
\* the override is set is made by the _switch_to call of force_camera().
C18_OverrideSkipsEvaluation ==
  [][/\ \A t \in {"capture", "probe"} :
          (Evaluates(t) /\ sw_manual_override # NoValue)
          => /\ sw_active' = sw_active
             /\ sw_below_since' = sw_below_since
             /\ sw_above_since' = sw_above_since
             /\ sw_warmup_remaining' = sw_warmup_remaining
             /\ sw_pc'[t] # "switch_to"
     /\ (sw_manual_override # NoValue /\ sw_active' # sw_active)
          => /\ sw_pc["api"] = "switch_to"
             /\ sw_pc'["api"] = "idle"
             /\ sw_active' = sw_manual_override]_vars

\* C18 witness: force_camera(DAY) is the only API call made, DAY has been
\* active throughout, and the capture loop has returned from an evaluation of
\* a DAY average below the threshold with the below-threshold timer still
\* None: that evaluation ran with the override set (in AUTO mode it would
\* have started the timer, and nothing since could have reset it).
C18_Witness ==
  /\ sw_manual_override = DAY
  /\ sw_api_calls = 1
  /\ sw_pc["api"] = "idle"
  /\ sw_active = DAY
  /\ sw_pc["capture"] = "warmup"
  /\ sw_history[DAY] # <<>>
  /\ AverageBelow(sw_history[DAY], day_to_night_threshold)
  /\ sw_below_since = NoValue

\* C19: when force_camera(c) returns, the active camera is c, the mode is
\* MANUAL, manual_override is c and both hold timers are None.
C19_ForceCameraPostState ==
  [][(sw_pc["api"] = "switch_to" /\ sw_pc'["api"] = "idle")
     => /\ sw_active' = sw_local["api"].target
        /\ sw_switch_mode' = "manual"
        /\ sw_manual_override' = sw_local["api"].target
        /\ sw_below_since' = NoValue
        /\ sw_above_since' = NoValue]_vars

\* the step is a call of resume_auto()
ResumesAuto == sw_api_calls' # sw_api_calls /\ sw_pc'["api"] = "idle"

\* C20: resume_auto() sets the mode to AUTO and manual_override and both
\* hold timers to None and leaves the active camera and the warm-up counter
\* as they were; and an evaluation goes on to switch only when the run of
\* evaluations that found the switch condition, counted from the first one
\* after the last resume_auto(), spans at least the hold time.
C20_ResumeAutoRestartsHold ==
  [][/\ ResumesAuto
        => /\ sw_switch_mode' = "auto"
           /\ sw_manual_override' = NoValue
           /\ sw_below_since' = NoValue
           /\ sw_above_since' = NoValue
           /\ sw_active' = sw_active
           /\ sw_warmup_remaining' = sw_warmup_remaining
     /\ \A t \in {"capture", "probe"} : \A target \in Cameras :
          DecidesSwitch(t, target)
          => LET run == IF target = NIGHT THEN sw_dip_since'
                        ELSE sw_rise_since'
             IN /\ run # NoValue
                /\ sw_local[t].now - run >= HOLD_SECONDS]_vars

\* C20 witness: resume_auto() was called after force_camera(NIGHT) with the
\* warm-up still counting, and since then the hold time has been accumulated
\* and an evaluation is switching.
C20_Witness ==
  /\ sw_switch_reason = "auto-resume"
  /\ sw_switch_mode = "auto"
  /\ sw_active = NIGHT
  /\ sw_warmup_remaining > 0
  /\ \E t \in {"capture", "probe"} : EvaluationSwitching(t)

\* C21: none of the first warmup_frames frames the capture loop captures
\* after a switch is written to the ring.
C21_WarmupFramesSuppressed ==
  [][WritesFrame => ~sw_frame_owed]_vars

\* C22: the newest frame in the ring was never captured by the probe loop,
\* and no step of the probe loop changes the ring.
C22_ProbeNeverWrites ==
  /\ sw_last_frame.by # "probe"
  /\ sw_pc["probe"] \notin {"warmup", "store", "write"}

\* C22 witness: DAY has been active since construction, the probe loop has
\* captured NIGHT frames and recorded their brightness, and the ring holds a
\* frame, written by the capture loop.
C22_Witness ==
  /\ sw_switch_reason = "initial"
  /\ sw_active = DAY
  /\ sw_history[NIGHT] # <<>>
  /\ sw_pc["probe"] = "top"
  /\ sw_last_frame = [camera_id |-> DAY, by |-> "capture"]

\* thread t is inside a call that has yet to take or to release _switch_lock
InsideLockedCall(t) == sw_pc[t] \in {"evaluate", "switch_to"}

\* C35: no thread asks for _switch_lock while it holds it, and every call
\* of _evaluate_switch or _switch_to that has begun comes to its end.
C35_LockNeverWaitedForever ==
  /\ [](\A t \in Threads : ~(sw_pc[t] = "switch_to" /\ sw_lock = t))
  /\ \A t \in Threads : InsideLockedCall(t) ~> ~InsideLockedCall(t)

\* C36: every frame written to the ring was captured from the camera that
\* is active when write_frame is called.
C36_WrittenFrameFromActiveCamera ==
  [][WritesFrame => sw_last_frame'.camera_id = sw_active]_vars

(* ------------------------ hb_mem buffers: claims ---------------------- *)

\* a step in which release() is called: by a caller, a context exit or a
\* destructor, or by a clean-up loop of an import call
ReleaseCalled ==
  \/ hb_releases' = hb_releases + 1
  \/ hb_pc \in {"release_else", "except"} /\ hb_call'.i = hb_call.i + 1

(* C38: hb_mem_free_buf is called at most once for every imported fd,
   whatever release() calls, context exits and destructor runs happen; a
   release() on an object that is not imported calls nothing, and after
   every release() the object is marked not imported. *)
C38_FreedAtMostOnce ==
  /\ [](\A fd \in DOMAIN hb_free_calls : hb_free_calls[fd] <= 1)
  /\ [][ReleaseCalled =>
          /\ ~hb_bufs'[hb_released'].imported
          /\ ~hb_bufs[hb_released'].imported => hb_free_calls' = hb_free_calls]_vars

\* the one buffer object was released twice and its fd freed once
C38_Witness ==
  /\ Len(hb_bufs) = 1 /\ hb_releases >= 2
  /\ ~hb_bufs[1].imported
  /\ \A fd \in FdsToFree(hb_bufs[1]) : hb_free_calls[fd] = 1

(* C39: when import_nv12_planes or import_nv12_graph_buf raises, every
   buffer the call imported has been released, each of its fds freed exactly
   once, and none is left imported; when the call returns, the buffers it
   returns are imported and none of their fds has been freed. *)
C39_ImportCleansUp ==
  /\ hb_pc = "raised" =>
       \A k \in 1..Len(hb_call.buffers) :
         /\ ~hb_bufs[hb_call.buffers[k]].imported
         /\ \A fd \in FdsToFree(hb_bufs[hb_call.buffers[k]]) : hb_free_calls[fd] = 1
  /\ hb_pc = "returned" =>
       \A k \in 1..Len(hb_call.buffers) :
         /\ hb_bufs[hb_call.buffers[k]].imported
         /\ \A fd \in FdsToFree(hb_bufs[hb_call.buffers[k]]) : hb_free_calls[fd] = 0

\* an import call raised after it had imported a buffer
C39_Witness ==
  /\ hb_pc = "raised"
  /\ Len(hb_call.buffers) >= 1

(* --------------- any slot in the detection segment: claims ------------ *)

(* C40: get_latest_detections and read_detection never index
   c_det.detections outside 0..MAX_DETECTIONS-1, whatever num_detections the
   slot holds (negative or above MAX_DETECTIONS), and such a slot does not
   make the reader raise. *)
C40_IndexInsideArray ==
  /\ \A i \in sl_indexed : i \in 0..(MAX_DETECTIONS - 1)
  /\ ~sl_raised

(* ---------------------- controller shutdown: claims ------------------- *)

\* C24: once stop() has set the stop event, the capture loop and the probe
\* loop both end: neither waits without bound on a lock or a sleep.
C24_LoopsExitAfterStop ==
  sw_stop_event ~> (sw_pc["capture"] = "exited" /\ sw_pc["probe"] = "exited")

(* ----------------------- mock shared memory: claims ------------------- *)

\* the step that ends the with block thread t is in
MockLeaves(t) ==
  \/ t = "camera" /\ MockWriteFrameExit
  \/ MockReadLatestFrameExit /\ mk_pc'[t] # mk_pc[t]
  \/ t = "detector" /\ MockWriteDetectionExit
  \/ MockReadDetectionExit /\ mk_pc'[t] # mk_pc[t]

\* the step with which thread t enters the with block of its next call
MockEnters(t) ==
  \/ t = "camera" /\ MockWriteFrameEnter
  \/ MockReadLatestFrameEnter /\ mk_pc'[t] # mk_pc[t]
  \/ t = "detector" /\ MockWriteDetectionEnter
  \/ MockReadDetectionEnter /\ mk_pc'[t] # mk_pc[t]

Init ==
  /\ RingInit /\ DetInit /\ ZcInit /\ SwInit /\ StopInit /\ MockInit
  /\ LifeInit /\ PosInit /\ EqInit /\ HbInit /\ SlInit

Next == RingNext

\* the frame ring buffer
Spec == Init /\ [][Next]_vars

\* the frame ring with a producer that is stopped and started again
SpecRestart == Init /\ [][RingNext \/ CamRestart]_vars

\* the monitor: two threads on one RealSharedMemory object
SpecPos == Init /\ [][PosNext]_vars

\* the same calls on RealSharedMemory and on MockSharedMemory
SpecEquiv == Init /\ [][EquivNext]_vars

\* the hb_mem buffer objects
SpecHb == Init /\ [][HbNext]_vars

\* a reader on any slot of the detection segment
SpecSl == Init /\ [][SlNext]_vars

\* the detection result channel
SpecDet == Init /\ [][DetNext]_vars

\* the detection result channel with its writer only
SpecDetWriter == Init /\ [][DetWriterNext]_vars

\* the zero-copy channels and the detector daemon
SpecZc == Init /\ [][ZcNext]_vars

\* the camera switch controller
SpecSw == Init /\ [][SwNext]_vars

\* the camera switch controller with stop(), its threads scheduled fairly
SpecStopFair ==
  /\ Init /\ [][StopNext]_vars
  /\ WF_vars(GetActiveCameraId)
  /\ WF_vars(CaptureAndRecord)
  /\ WF_vars(EvaluateSwitch)
  /\ WF_vars(SwitchTo)
  /\ WF_vars(WarmupCheck)
  /\ WF_vars(WarmupStore)
  /\ WF_vars(WriteFrame)
  /\ WF_vars(LoopExit)
  /\ WF_vars(StopReturns)

\* the mock shared memory and the threads of mock/main.py
SpecMock == Init /\ [][MockNext]_vars

\* the camera switch controller with its threads scheduled fairly: a thread
\* whose next step stays possible takes it
SpecSwFair ==
  /\ SpecSw
  /\ WF_vars(GetActiveCameraId)
  /\ WF_vars(CaptureAndRecord)
  /\ WF_vars(EvaluateSwitch)
  /\ WF_vars(SwitchTo)
  /\ WF_vars(WarmupCheck)
  /\ WF_vars(WarmupStore)
  /\ WF_vars(WriteFrame)

====
